---- MODULE Spec2Model ----
(***************************************************************************)
(* Model of worker.RunGenericWorkerPoolStream (src/unnamed/part_010): the  *)
(* pre-flight checks, the feeder, the workers, the finalizer, the          *)
(* deduplicating sendResult, the pool context and the external semaphore,  *)
(* together with their environment (the caller's context, the timers, the  *)
(* user function, the consumer of the output and the other users of the    *)
(* semaphore).                                                             *)
(***************************************************************************)
EXTENDS Integers, Sequences, FiniteSets, TLC

\* Longest batch of jobs a caller passes.
MaxBatch == 4

\* Longest batch on which the workers, the feeder and the finalizer are
\* started (longer ones are rejected in the pre-flight checks).
MaxJobs == 2

\* Largest cfg.NumWorkers the caller passes (0 selects the default).
MaxWorkers == 1

\* The number of workers started when cfg.NumWorkers <= 0.
DefaultWorkers == 2

\* Capacity of the caller's globalSemaphore channel.
SemCap == 1

\* Number of goroutines that call sendResult where it is taken on its own.
MaxProducers == 2

\* Longest cfg.WorkerTimeout and cfg.GlobalTimeout the caller passes, in
\* seconds (durations are counted in whole seconds).
MaxSeconds == 40

\* cfg.GlobalTimeout when the caller's is <= 0: 30 * time.Second.
DefaultGlobalTimeout == 30

\* cfg.WorkerTimeout when the caller's is <= 0: 15 * time.Second.
DefaultWorkerTimeout == 15

VARIABLES
    jobs,          \* the batch: a sequence of Job records [ID, Data]
    callerCfg,     \* the WorkerPoolConfig value the caller passed
    cfg,           \* the function's copy of it, on which the defaults are set
    semNil,        \* globalSemaphore == nil
    mode,          \* where the call went: "entry", "empty", "dup", "cancelled", "pool"
    callerDone,    \* ctx.Done() is closed
    poolTimedOut,  \* the GlobalTimeout timer of poolCtx has fired
    cancelOnce,    \* cancelOnce (sync.Once) has been used
    cancelRuns,    \* how many times cancelPool() has been called
    sentResults,   \* keys of the sentResults sync.Map
    outCh,         \* every Result sent on outCh so far, in channel order
    outCap,        \* cap(outCh)
    consumed,      \* how many of them the consumer has received
    outCloses,     \* how many times close(outCh) has run
    semCount,      \* len(globalSemaphore)
    extHeld,       \* permits held by other users of the semaphore
    wpc,           \* per worker: its position in the worker goroutine
    wjob,          \* per worker: index in jobs of the job it holds (0: none)
    wtask,         \* per worker: taskCtx state "none", "live", "expired"
    wres,          \* per worker: the Result it is about to send
    fpc,           \* feeder position
    fidx,          \* feeder: index of the job of the current iteration
    finpc,         \* finalizer position
    epc,           \* pre-flight emitter goroutine position
    eidx,          \* pre-flight emitter: index of the next job
    dupID,         \* the job.ID the duplicate check stopped at
    invocations    \* per job index: how many times workerFunc was entered

vars == <<jobs, callerCfg, cfg, semNil, mode, callerDone, poolTimedOut, cancelOnce,
          cancelRuns, sentResults, outCh, outCap, consumed, outCloses,
          semCount, extHeld, wpc, wjob, wtask, wres, fpc, fidx, finpc, epc,
          eidx, dupID, invocations>>

(***************************************************************************)
(* Data: Job, Result, the errors a Result carries, WorkerPoolConfig.       *)
(***************************************************************************)

\* Job[T]: the i-th job of a batch carries the payload 100 * i, as in the tests.
Job(i, id) == [ID |-> id, Data |-> 100 * i]

\* Result.Err: nil, ErrSkipped, the duplicate error (with the id in its
\* message), the recovered panic (with the panic value), an error returned by
\* the user function, and the error it returns when its context is done.
NoErr == [kind |-> "nil", arg |-> 0]

ErrSkipped == [kind |-> "skipped", arg |-> 0]

ErrDuplicate(id) == [kind |-> "duplicate", arg |-> id]

ErrPanic(r) == [kind |-> "panic", arg |-> r]

ErrUser == [kind |-> "user", arg |-> 0]

ErrDeadline == [kind |-> "deadline", arg |-> 0]

Result(id, value, err) == [ID |-> id, Value |-> value, Err |-> err]

NoResult == Result(0, 0, NoErr)

\* The code compares job ids only for equality (seenIDs, sentResults), so a
\* batch is taken up to a renaming of its ids: the k-th distinct id of a
\* batch is MaxBatch + 1 - k, which also makes the input order differ from
\* the order of the ids.
CanonicalIds(ids) ==
    \A i \in DOMAIN ids :
        LET before == {ids[k] : k \in 1..(i - 1)}
        IN  ids[i] \in before \cup {MaxBatch - Cardinality(before)}

\* The batches a caller passes: every sequence of at most MaxBatch jobs
\* (empty, with unique ids, with repeated ids).
Batches ==
    UNION { { [i \in 1..n |-> Job(i, ids[i])] :
                ids \in {f \in [1..n -> 1..MaxBatch] : CanonicalIds(f)} }
            : n \in 0..MaxBatch }

\* DuplicateScan stopping at the first job that has a later job with its ID.
DuplicateScan_FirstRepeated(js, i, seenIDs) ==
    IF \E a, b \in DOMAIN js : a < b /\ js[a].ID = js[b].ID
    THEN CHOOSE a \in DOMAIN js :
            /\ \E b \in DOMAIN js : a < b /\ js[a].ID = js[b].ID
            /\ \A c \in 1..(a - 1) :
                  ~\E b \in DOMAIN js : c < b /\ js[c].ID = js[b].ID
    ELSE 0

\* The duplicate scan: index of the first job whose ID is already in
\* seenIDs, 0 when the loop ends without one.
RECURSIVE DuplicateScan(_, _, _)
DuplicateScan(js, i, seenIDs) ==
    IF i > Len(js) THEN 0
    ELSE IF js[i].ID \in seenIDs THEN i
    ELSE DuplicateScan(js, i + 1, seenIDs \cup {js[i].ID})

\* cfg.NumWorkers after the defaults are applied.
DefaultNumWorkers(n) == IF n <= 0 THEN DefaultWorkers ELSE n

\* What one call of workerFunc(taskCtx, data) can do: return a value, return
\* an error, panic, or (once its context is done) return the context's error.
WorkerFuncOutcomes(data, ctxDone) ==
    { [panics |-> FALSE, Value |-> data + 1, Err |-> NoErr],
      [panics |-> FALSE, Value |-> 0, Err |-> ErrUser],
      [panics |-> TRUE, Value |-> data, Err |-> NoErr] }
    \cup (IF ctxDone
          THEN {[panics |-> FALSE, Value |-> 0, Err |-> ErrDeadline]}
          ELSE {})

(***************************************************************************)
(* Derived state.                                                          *)
(***************************************************************************)

Workers == DOMAIN wpc

\* poolCtx.Done() is closed: by the caller's context, by the GlobalTimeout
\* timer or by cancelPool().
PoolDone == callerDone \/ poolTimedOut \/ cancelRuns > 0

\* TaskDone for a taskCtx derived from context.Background(), not poolCtx.
TaskDone_Detached(w) == wtask[w] = "expired"

\* taskCtx.Done() of worker w is closed.
TaskDone(w) == wtask[w] = "expired" \/ (wtask[w] = "live" /\ PoolDone)

\* Results sitting in the buffer of outCh.
Buffered == Len(outCh) - consumed

\* A send on outCh can proceed.
CanSend == Buffered < outCap

\* Permits of the semaphore held by this pool's workers.
PoolHeld == semCount - extHeld

\* The call passes all three pre-flight checks.
StartsPool(js, ctxDone) ==
    Len(js) > 0 /\ DuplicateScan(js, 1, {}) = 0 /\ ~ctxDone

\* A call with any batch and configuration.  The durations of cfg are left
\* to ConfigSpec below (the timers fire at any time here), and a caller that
\* names the count DefaultWorkers gets the pool of a caller that names none,
\* so that one is taken once.
Init ==
    /\ jobs \in Batches
    /\ cfg \in [NumWorkers : 0..MaxWorkers, StopOnError : BOOLEAN]
    /\ cfg.NumWorkers # DefaultWorkers
    /\ callerCfg = cfg
    /\ semNil \in BOOLEAN
    /\ mode = "entry"
    /\ callerDone \in BOOLEAN
    /\ StartsPool(jobs, callerDone) => Len(jobs) <= MaxJobs
    /\ poolTimedOut = FALSE
    /\ cancelOnce = FALSE
    /\ cancelRuns = 0
    /\ sentResults = {}
    /\ outCh = <<>>
    /\ outCap = 0
    /\ consumed = 0
    /\ outCloses = 0
    /\ extHeld \in (IF semNil THEN {0} ELSE 0..SemCap)
    /\ semCount = extHeld
    /\ wpc = <<>>
    /\ wjob = <<>>
    /\ wtask = <<>>
    /\ wres = <<>>
    /\ fpc = "none"
    /\ fidx = 0
    /\ finpc = "none"
    /\ epc = "none"
    /\ eidx = 0
    /\ dupID = 0
    /\ invocations = [i \in 1..Len(jobs) |-> 0]

(***************************************************************************)
(* Pre-flight: the synchronous part of RunGenericWorkerPoolStream.         *)
(***************************************************************************)

poolVars == <<cancelOnce, cancelRuns, sentResults, wpc, wjob, wtask, wres,
              fpc, fidx, finpc>>

envVars == <<callerDone, poolTimedOut, semCount, extHeld, consumed>>

\* EnterEmpty with the close(outCh) forgotten.
EnterEmpty_NoClose ==
    /\ mode = "entry"
    /\ Len(jobs) = 0
    /\ mode' = "empty"
    /\ outCap' = 0
    /\ UNCHANGED <<jobs, callerCfg, cfg, semNil, outCh, outCloses, epc, eidx, dupID,
                   invocations>>
    /\ UNCHANGED poolVars
    /\ UNCHANGED envVars

\* len(jobs) == 0: an unbuffered channel, closed before it is returned.
EnterEmpty ==
    /\ mode = "entry"
    /\ Len(jobs) = 0
    /\ mode' = "empty"
    /\ outCap' = 0
    /\ outCloses' = outCloses + 1
    /\ UNCHANGED <<jobs, callerCfg, cfg, semNil, outCh, epc, eidx, dupID, invocations>>
    /\ UNCHANGED poolVars
    /\ UNCHANGED envVars

\* EnterDuplicate failing only the jobs from the colliding one on.
EnterDuplicate_FromColliding ==
    /\ mode = "entry"
    /\ Len(jobs) > 0
    /\ DuplicateScan(jobs, 1, {}) # 0
    /\ mode' = "dup"
    /\ dupID' = jobs[DuplicateScan(jobs, 1, {})].ID
    /\ outCap' = Len(jobs)
    /\ epc' = "emit"
    /\ eidx' = DuplicateScan(jobs, 1, {})
    /\ UNCHANGED <<jobs, callerCfg, cfg, semNil, outCh, outCloses, invocations>>
    /\ UNCHANGED poolVars
    /\ UNCHANGED envVars

\* A job whose ID was seen before: the rejecting goroutine is started.
EnterDuplicate ==
    /\ mode = "entry"
    /\ Len(jobs) > 0
    /\ DuplicateScan(jobs, 1, {}) # 0
    /\ mode' = "dup"
    /\ dupID' = jobs[DuplicateScan(jobs, 1, {})].ID
    /\ outCap' = Len(jobs)
    /\ epc' = "emit"
    /\ eidx' = 1
    /\ UNCHANGED <<jobs, callerCfg, cfg, semNil, outCh, outCloses, invocations>>
    /\ UNCHANGED poolVars
    /\ UNCHANGED envVars

\* EnterCancelled for a check of ctx placed before the duplicate validation.
EnterCancelled_BeforeDuplicates ==
    /\ mode = "entry"
    /\ Len(jobs) > 0
    /\ callerDone
    /\ mode' = "cancelled"
    /\ outCap' = Len(jobs)
    /\ epc' = "emit"
    /\ eidx' = 1
    /\ UNCHANGED <<jobs, callerCfg, cfg, semNil, outCh, outCloses, dupID, invocations>>
    /\ UNCHANGED poolVars
    /\ UNCHANGED envVars

\* ctx is already done: the skipping goroutine is started.
EnterCancelled ==
    /\ mode = "entry"
    /\ Len(jobs) > 0
    /\ DuplicateScan(jobs, 1, {}) = 0
    /\ callerDone
    /\ mode' = "cancelled"
    /\ outCap' = Len(jobs)
    /\ epc' = "emit"
    /\ eidx' = 1
    /\ UNCHANGED <<jobs, callerCfg, cfg, semNil, outCh, outCloses, dupID, invocations>>
    /\ UNCHANGED poolVars
    /\ UNCHANGED envVars

\* EnterPool making outCh one slot short of the batch.
EnterPool_ShortBuffer ==
    /\ mode = "entry"
    /\ Len(jobs) > 0
    /\ DuplicateScan(jobs, 1, {}) = 0
    /\ ~callerDone
    /\ mode' = "pool"
    /\ cfg' = [cfg EXCEPT !.NumWorkers = DefaultNumWorkers(cfg.NumWorkers)]
    /\ outCap' = Len(jobs) - 1
    /\ wpc' = [w \in 1..cfg'.NumWorkers |-> "recv"]
    /\ wjob' = [w \in 1..cfg'.NumWorkers |-> 0]
    /\ wtask' = [w \in 1..cfg'.NumWorkers |-> "none"]
    /\ wres' = [w \in 1..cfg'.NumWorkers |-> NoResult]
    /\ fpc' = "offer"
    /\ fidx' = 1
    /\ finpc' = "waitFeeder"
    /\ UNCHANGED <<jobs, callerCfg, semNil, cancelOnce, cancelRuns, sentResults, outCh,
                   outCloses, epc, eidx, dupID, invocations>>
    /\ UNCHANGED envVars

\* EnterPool with the loop that starts the workers running once too often.
EnterPool_OneMore ==
    /\ mode = "entry"
    /\ Len(jobs) > 0
    /\ DuplicateScan(jobs, 1, {}) = 0
    /\ ~callerDone
    /\ mode' = "pool"
    /\ cfg' = [cfg EXCEPT !.NumWorkers = DefaultNumWorkers(cfg.NumWorkers)]
    /\ outCap' = Len(jobs)
    /\ wpc' = [w \in 1..(cfg'.NumWorkers + 1) |-> "recv"]
    /\ wjob' = [w \in 1..(cfg'.NumWorkers + 1) |-> 0]
    /\ wtask' = [w \in 1..(cfg'.NumWorkers + 1) |-> "none"]
    /\ wres' = [w \in 1..(cfg'.NumWorkers + 1) |-> NoResult]
    /\ fpc' = "offer"
    /\ fidx' = 1
    /\ finpc' = "waitFeeder"
    /\ UNCHANGED <<jobs, callerCfg, semNil, cancelOnce, cancelRuns,
                   sentResults, outCh, outCloses, epc, eidx, dupID,
                   invocations>>
    /\ UNCHANGED envVars

\* Otherwise: defaults applied, channels and poolCtx made, the workers, the
\* feeder and the finalizer started.
EnterPool ==
    /\ mode = "entry"
    /\ Len(jobs) > 0
    /\ DuplicateScan(jobs, 1, {}) = 0
    /\ ~callerDone
    /\ mode' = "pool"
    /\ cfg' = [cfg EXCEPT !.NumWorkers = DefaultNumWorkers(cfg.NumWorkers)]
    /\ outCap' = Len(jobs)
    /\ wpc' = [w \in 1..cfg'.NumWorkers |-> "recv"]
    /\ wjob' = [w \in 1..cfg'.NumWorkers |-> 0]
    /\ wtask' = [w \in 1..cfg'.NumWorkers |-> "none"]
    /\ wres' = [w \in 1..cfg'.NumWorkers |-> NoResult]
    /\ fpc' = "offer"
    /\ fidx' = 1
    /\ finpc' = "waitFeeder"
    /\ UNCHANGED <<jobs, callerCfg, semNil, cancelOnce, cancelRuns, sentResults, outCh,
                   outCloses, epc, eidx, dupID, invocations>>
    /\ UNCHANGED envVars

\* The rejecting goroutine: one Result per job with the duplicate error.
DupEmit ==
    /\ mode = "dup"
    /\ epc = "emit"
    /\ eidx <= Len(jobs)
    /\ CanSend
    /\ outCh' = Append(outCh, Result(jobs[eidx].ID, 0, ErrDuplicate(dupID)))
    /\ eidx' = eidx + 1
    /\ UNCHANGED <<jobs, callerCfg, cfg, semNil, mode, outCap, outCloses, epc, dupID,
                   invocations>>
    /\ UNCHANGED poolVars
    /\ UNCHANGED envVars

\* SkipEmit reporting the context's own error instead of ErrSkipped.
SkipEmit_CtxErr ==
    /\ mode = "cancelled"
    /\ epc = "emit"
    /\ eidx <= Len(jobs)
    /\ CanSend
    /\ outCh' = Append(outCh, Result(jobs[eidx].ID, 0, ErrDeadline))
    /\ eidx' = eidx + 1
    /\ UNCHANGED <<jobs, callerCfg, cfg, semNil, mode, outCap, outCloses, epc, dupID,
                   invocations>>
    /\ UNCHANGED poolVars
    /\ UNCHANGED envVars

\* The skipping goroutine: one Result per job with ErrSkipped.
SkipEmit ==
    /\ mode = "cancelled"
    /\ epc = "emit"
    /\ eidx <= Len(jobs)
    /\ CanSend
    /\ outCh' = Append(outCh, Result(jobs[eidx].ID, 0, ErrSkipped))
    /\ eidx' = eidx + 1
    /\ UNCHANGED <<jobs, callerCfg, cfg, semNil, mode, outCap, outCloses, epc, dupID,
                   invocations>>
    /\ UNCHANGED poolVars
    /\ UNCHANGED envVars

\* Either goroutine, after its loop: close(outCh).
EmitClose ==
    /\ mode \in {"dup", "cancelled"}
    /\ epc = "emit"
    /\ eidx > Len(jobs)
    /\ outCloses' = outCloses + 1
    /\ epc' = "done"
    /\ UNCHANGED <<jobs, callerCfg, cfg, semNil, mode, outCh, outCap, eidx, dupID,
                   invocations>>
    /\ UNCHANGED poolVars
    /\ UNCHANGED envVars

(***************************************************************************)
(* The pool: sendResult, safeCancelPool, the workers, the feeder and the   *)
(* finalizer.  One action per step that reads or writes shared state.      *)
(***************************************************************************)

fixedVars == <<jobs, callerCfg, cfg, semNil, mode, outCap, epc, eidx, dupID>>

\* SafeCancelPool calling cancelPool() with no cancelOnce around it.
SafeCancelPool_NoOnce ==
    /\ cancelOnce' = cancelOnce
    /\ cancelRuns' = cancelRuns + 1

\* safeCancelPool(): cancelOnce.Do(cancelPool).
SafeCancelPool ==
    IF cancelOnce
    THEN UNCHANGED <<cancelOnce, cancelRuns>>
    ELSE /\ cancelOnce' = TRUE
         /\ cancelRuns' = cancelRuns + 1

\* AlreadySent for a sendResult that stores the id and sends regardless.
AlreadySent_Never(id) == FALSE

\* AlreadySent with the test turned around: a Result goes out only for an
\* id that was stored before.
AlreadySent_Inverted(id) == id \notin sentResults

\* sentResults.LoadOrStore(id, true) reports the id as already sent.
AlreadySent(id) == id \in sentResults

\* Where a worker goes when the deferred calls of an iteration that ran the
\* user function are left to run: the permit is released if there is one.
Unwind == IF semNil THEN "recv" ELSE "release"

\* AfterSendResult for a recover() placed around the worker's loop: the
\* goroutine ends after the panic Result.
AfterSendResult_ExitOnPanic(w) ==
    CASE wres[w].Err.kind = "skipped" -> "recv"
      [] wres[w].Err.kind = "panic" -> "done"
      [] OTHER -> Unwind

\* AfterSendResult with the release of the permit skipped after a panic.
AfterSendResult_LeakOnPanic(w) ==
    CASE wres[w].Err.kind = "skipped" -> "recv"
      [] wres[w].Err.kind = "panic" ->
            IF cfg.StopOnError THEN "recoverStop" ELSE "recv"
      [] OTHER -> Unwind

\* Where worker w goes when sendResult returns: a skip continues the loop,
\* the recover handler goes on to its StopOnError test, a normal return
\* leaves the closure.
AfterSendResult(w) ==
    CASE wres[w].Err.kind = "skipped" -> "recv"
      [] wres[w].Err.kind = "panic" ->
            IF cfg.StopOnError THEN "recoverStop" ELSE Unwind
      [] OTHER -> Unwind

\* Dispatch with a feeder that offers the same job again.
Dispatch_NoAdvance(w) ==
    /\ mode = "pool"
    /\ fpc = "offer"
    /\ fidx <= Len(jobs)
    /\ wpc[w] = "recv"
    /\ wpc' = [wpc EXCEPT ![w] = "precheck"]
    /\ wjob' = [wjob EXCEPT ![w] = fidx]
    /\ fidx' = fidx
    /\ UNCHANGED <<cancelOnce, cancelRuns, sentResults, outCh, outCloses,
                   wtask, wres, fpc, finpc, invocations>>
    /\ UNCHANGED fixedVars
    /\ UNCHANGED envVars

\* The feeder's jobCh <- job meets worker w's receive of the range loop.
Dispatch(w) ==
    /\ mode = "pool"
    /\ fpc = "offer"
    /\ fidx <= Len(jobs)
    /\ wpc[w] = "recv"
    /\ wpc' = [wpc EXCEPT ![w] = "precheck"]
    /\ wjob' = [wjob EXCEPT ![w] = fidx]
    /\ fidx' = fidx + 1
    /\ UNCHANGED <<cancelOnce, cancelRuns, sentResults, outCh, outCloses,
                   wtask, wres, fpc, finpc, invocations>>
    /\ UNCHANGED fixedVars
    /\ UNCHANGED envVars

\* FeederSkip writing to outCh itself, with no LoadOrStore before it.
FeederSkip_NoSink ==
    /\ mode = "pool"
    /\ fpc = "offer"
    /\ fidx <= Len(jobs)
    /\ PoolDone
    /\ fpc' = "send"
    /\ UNCHANGED <<cancelOnce, cancelRuns, sentResults, outCh, outCloses, wpc,
                   wjob, wtask, wres, fidx, finpc, invocations>>
    /\ UNCHANGED fixedVars
    /\ UNCHANGED envVars

\* FeederSkip moving on to the next job without a Result for the skipped one.
FeederSkip_NoResult ==
    /\ mode = "pool"
    /\ fpc = "offer"
    /\ fidx <= Len(jobs)
    /\ PoolDone
    /\ fidx' = fidx + 1
    /\ UNCHANGED <<cancelOnce, cancelRuns, sentResults, outCh, outCloses, wpc,
                   wjob, wtask, wres, fpc, finpc, invocations>>
    /\ UNCHANGED fixedVars
    /\ UNCHANGED envVars

\* The feeder's select takes <-poolCtx.Done(): sendResult is called.
FeederSkip ==
    /\ mode = "pool"
    /\ fpc = "offer"
    /\ fidx <= Len(jobs)
    /\ PoolDone
    /\ fpc' = "sink"
    /\ UNCHANGED <<cancelOnce, cancelRuns, sentResults, outCh, outCloses, wpc,
                   wjob, wtask, wres, fidx, finpc, invocations>>
    /\ UNCHANGED fixedVars
    /\ UNCHANGED envVars

\* sendResult in the feeder: LoadOrStore.
FeederSink ==
    /\ fpc = "sink"
    /\ sentResults' = sentResults \cup {jobs[fidx].ID}
    /\ IF AlreadySent(jobs[fidx].ID)
       THEN fpc' = "offer" /\ fidx' = fidx + 1
       ELSE fpc' = "send" /\ fidx' = fidx
    /\ UNCHANGED <<cancelOnce, cancelRuns, outCh, outCloses, wpc, wjob, wtask,
                   wres, finpc, invocations>>
    /\ UNCHANGED fixedVars
    /\ UNCHANGED envVars

\* FeederSend followed by another offer of the job just skipped.
FeederSend_Retry ==
    /\ fpc = "send"
    /\ CanSend
    /\ outCh' = Append(outCh, Result(jobs[fidx].ID, 0, ErrSkipped))
    /\ fpc' = "offer"
    /\ fidx' = fidx
    /\ UNCHANGED <<cancelOnce, cancelRuns, sentResults, outCloses, wpc, wjob,
                   wtask, wres, finpc, invocations>>
    /\ UNCHANGED fixedVars
    /\ UNCHANGED envVars

\* FeederSend putting the job's position in the batch in Result.ID.
FeederSend_IndexAsID ==
    /\ fpc = "send"
    /\ CanSend
    /\ outCh' = Append(outCh, Result(fidx, 0, ErrSkipped))
    /\ fpc' = "offer"
    /\ fidx' = fidx + 1
    /\ UNCHANGED <<cancelOnce, cancelRuns, sentResults, outCloses, wpc, wjob,
                   wtask, wres, finpc, invocations>>
    /\ UNCHANGED fixedVars
    /\ UNCHANGED envVars

\* sendResult in the feeder: outCh <- result.
FeederSend ==
    /\ fpc = "send"
    /\ CanSend
    /\ outCh' = Append(outCh, Result(jobs[fidx].ID, 0, ErrSkipped))
    /\ fpc' = "offer"
    /\ fidx' = fidx + 1
    /\ UNCHANGED <<cancelOnce, cancelRuns, sentResults, outCloses, wpc, wjob,
                   wtask, wres, finpc, invocations>>
    /\ UNCHANGED fixedVars
    /\ UNCHANGED envVars

\* The feeder's loop is over: close(jobCh), feederWG.Done().
FeederClose ==
    /\ mode = "pool"
    /\ fpc = "offer"
    /\ fidx > Len(jobs)
    /\ fpc' = "done"
    /\ UNCHANGED <<cancelOnce, cancelRuns, sentResults, outCh, outCloses, wpc,
                   wjob, wtask, wres, fidx, finpc, invocations>>
    /\ UNCHANGED fixedVars
    /\ UNCHANGED envVars

\* The range over jobCh ends for worker w: workerWG.Done().
WorkerExit(w) ==
    /\ wpc[w] = "recv"
    /\ fpc = "done"
    /\ wpc' = [wpc EXCEPT ![w] = "done"]
    /\ UNCHANGED <<cancelOnce, cancelRuns, sentResults, outCh, outCloses, wjob,
                   wtask, wres, fpc, fidx, finpc, invocations>>
    /\ UNCHANGED fixedVars
    /\ UNCHANGED envVars

\* WorkerPreCheck going on to the next job without a Result when poolCtx is
\* done.
WorkerPreCheck_Drop(w) ==
    /\ wpc[w] = "precheck"
    /\ IF PoolDone
       THEN /\ wpc' = [wpc EXCEPT ![w] = "recv"]
            /\ wjob' = [wjob EXCEPT ![w] = 0]
       ELSE /\ wpc' = [wpc EXCEPT
                          ![w] = IF semNil THEN "invoke" ELSE "acquire"]
            /\ wjob' = wjob
    /\ UNCHANGED <<cancelOnce, cancelRuns, sentResults, outCh, outCloses,
                   wtask, wres, fpc, fidx, finpc, invocations>>
    /\ UNCHANGED fixedVars
    /\ UNCHANGED envVars

\* WorkerPreCheck without the look at poolCtx.Done().
WorkerPreCheck_NoCheck(w) ==
    /\ wpc[w] = "precheck"
    /\ wpc' = [wpc EXCEPT ![w] = IF semNil THEN "invoke" ELSE "acquire"]
    /\ UNCHANGED <<cancelOnce, cancelRuns, sentResults, outCh, outCloses, wjob,
                   wtask, wres, fpc, fidx, finpc, invocations>>
    /\ UNCHANGED fixedVars
    /\ UNCHANGED envVars

\* "Check context before work": poolCtx done means skip, else go on.
WorkerPreCheck(w) ==
    /\ wpc[w] = "precheck"
    /\ IF PoolDone
       THEN /\ wres' = [wres EXCEPT
                           ![w] = Result(jobs[wjob[w]].ID, 0, ErrSkipped)]
            /\ wpc' = [wpc EXCEPT ![w] = "sink"]
       ELSE /\ wres' = wres
            /\ wpc' = [wpc EXCEPT
                          ![w] = IF semNil THEN "invoke" ELSE "acquire"]
    /\ UNCHANGED <<cancelOnce, cancelRuns, sentResults, outCh, outCloses, wjob,
                   wtask, fpc, fidx, finpc, invocations>>
    /\ UNCHANGED fixedVars
    /\ UNCHANGED envVars

\* WorkerAcquire going on without waiting for room in the semaphore.
WorkerAcquire_NoWait(w) ==
    /\ wpc[w] = "acquire"
    /\ semCount' = semCount + 1
    /\ wpc' = [wpc EXCEPT ![w] = "invoke"]
    /\ UNCHANGED <<callerDone, poolTimedOut, extHeld, consumed>>
    /\ UNCHANGED <<cancelOnce, cancelRuns, sentResults, outCh, outCloses, wjob,
                   wtask, wres, fpc, fidx, finpc, invocations>>
    /\ UNCHANGED fixedVars

\* The semaphore select takes globalSemaphore <- struct{}{}.
WorkerAcquire(w) ==
    /\ wpc[w] = "acquire"
    /\ semCount < SemCap
    /\ semCount' = semCount + 1
    /\ wpc' = [wpc EXCEPT ![w] = "invoke"]
    /\ UNCHANGED <<callerDone, poolTimedOut, extHeld, consumed>>
    /\ UNCHANGED <<cancelOnce, cancelRuns, sentResults, outCh, outCloses, wjob,
                   wtask, wres, fpc, fidx, finpc, invocations>>
    /\ UNCHANGED fixedVars

\* WorkerAcquireSkip taking a permit along with the skip.
WorkerAcquireSkip_TakesPermit(w) ==
    /\ wpc[w] = "acquire"
    /\ PoolDone
    /\ semCount < SemCap
    /\ semCount' = semCount + 1
    /\ wres' = [wres EXCEPT ![w] = Result(jobs[wjob[w]].ID, 0, ErrSkipped)]
    /\ wpc' = [wpc EXCEPT ![w] = "sink"]
    /\ UNCHANGED <<callerDone, poolTimedOut, extHeld, consumed>>
    /\ UNCHANGED <<cancelOnce, cancelRuns, sentResults, outCh, outCloses, wjob,
                   wtask, fpc, fidx, finpc, invocations>>
    /\ UNCHANGED fixedVars

\* WorkerAcquireSkip for a plain send on the semaphore, with no
\* <-poolCtx.Done() case beside it.
WorkerAcquireSkip_NoDoneCase(w) ==
    /\ FALSE
    /\ wpc[w] = "acquire"
    /\ UNCHANGED vars

\* The semaphore select takes <-poolCtx.Done().
WorkerAcquireSkip(w) ==
    /\ wpc[w] = "acquire"
    /\ PoolDone
    /\ wres' = [wres EXCEPT ![w] = Result(jobs[wjob[w]].ID, 0, ErrSkipped)]
    /\ wpc' = [wpc EXCEPT ![w] = "sink"]
    /\ UNCHANGED <<cancelOnce, cancelRuns, sentResults, outCh, outCloses, wjob,
                   wtask, fpc, fidx, finpc, invocations>>
    /\ UNCHANGED fixedVars
    /\ UNCHANGED envVars

\* taskCtx is derived from poolCtx and workerFunc(taskCtx, job.Data) is entered.
WorkerInvoke(w) ==
    /\ wpc[w] = "invoke"
    /\ wtask' = [wtask EXCEPT ![w] = "live"]
    /\ invocations' = [invocations EXCEPT ![wjob[w]] = @ + 1]
    /\ wpc' = [wpc EXCEPT ![w] = "running"]
    /\ UNCHANGED <<cancelOnce, cancelRuns, sentResults, outCh, outCloses, wjob,
                   wres, fpc, fidx, finpc>>
    /\ UNCHANGED fixedVars
    /\ UNCHANGED envVars

\* TaskTimeout with the timer set on poolCtx instead of a context of its own.
TaskTimeout_OnPoolCtx(w) ==
    /\ wpc[w] = "running"
    /\ ~TaskDone(w)
    /\ wtask' = [wtask EXCEPT ![w] = "expired"]
    /\ poolTimedOut' = TRUE
    /\ UNCHANGED <<callerDone, semCount, extHeld, consumed>>
    /\ UNCHANGED <<cancelOnce, cancelRuns, sentResults, outCh, outCloses, wpc,
                   wjob, wres, fpc, fidx, finpc, invocations>>
    /\ UNCHANGED fixedVars

\* The WorkerTimeout timer of worker w's taskCtx fires.
TaskTimeout(w) ==
    /\ wpc[w] = "running"
    /\ ~TaskDone(w)
    /\ wtask' = [wtask EXCEPT ![w] = "expired"]
    /\ UNCHANGED <<cancelOnce, cancelRuns, sentResults, outCh, outCloses, wpc,
                   wjob, wres, fpc, fidx, finpc, invocations>>
    /\ UNCHANGED fixedVars
    /\ UNCHANGED envVars

\* WorkerReturn going to sendResult first, the StopOnError test left for
\* after it.
WorkerReturn_SendFirst(w) ==
    /\ wpc[w] = "running"
    /\ \E o \in WorkerFuncOutcomes(jobs[wjob[w]].Data, TaskDone(w)) :
          /\ ~o.panics
          /\ wres' = [wres EXCEPT
                         ![w] = Result(jobs[wjob[w]].ID, o.Value, o.Err)]
    /\ wpc' = [wpc EXCEPT ![w] = "sink"]
    /\ UNCHANGED <<cancelOnce, cancelRuns, sentResults, outCh, outCloses, wjob,
                   wtask, fpc, fidx, finpc, invocations>>
    /\ UNCHANGED fixedVars
    /\ UNCHANGED envVars

\* WorkerReturn calling safeCancelPool() on every error, with no look at
\* cfg.StopOnError.
WorkerReturn_StopAlways(w) ==
    /\ wpc[w] = "running"
    /\ \E o \in WorkerFuncOutcomes(jobs[wjob[w]].Data, TaskDone(w)) :
          /\ ~o.panics
          /\ wres' = [wres EXCEPT
                         ![w] = Result(jobs[wjob[w]].ID, o.Value, o.Err)]
          /\ wpc' = [wpc EXCEPT
                        ![w] = IF o.Err # NoErr THEN "stop" ELSE "sink"]
    /\ UNCHANGED <<cancelOnce, cancelRuns, sentResults, outCh, outCloses, wjob,
                   wtask, fpc, fidx, finpc, invocations>>
    /\ UNCHANGED fixedVars
    /\ UNCHANGED envVars

\* WorkerReturn reporting ErrSkipped when poolCtx is done at the return.
WorkerReturn_SkippedWhenDone(w) ==
    /\ wpc[w] = "running"
    /\ \E o \in WorkerFuncOutcomes(jobs[wjob[w]].Data, TaskDone(w)) :
          /\ ~o.panics
          /\ wres' = [wres EXCEPT
                         ![w] = IF PoolDone
                                THEN Result(jobs[wjob[w]].ID, 0, ErrSkipped)
                                ELSE Result(jobs[wjob[w]].ID, o.Value, o.Err)]
          /\ wpc' = [wpc EXCEPT
                        ![w] = IF o.Err # NoErr /\ cfg.StopOnError
                               THEN "stop" ELSE "sink"]
    /\ UNCHANGED <<cancelOnce, cancelRuns, sentResults, outCh, outCloses, wjob,
                   wtask, fpc, fidx, finpc, invocations>>
    /\ UNCHANGED fixedVars
    /\ UNCHANGED envVars

\* workerFunc returns (res, err): the StopOnError test follows.
WorkerReturn(w) ==
    /\ wpc[w] = "running"
    /\ \E o \in WorkerFuncOutcomes(jobs[wjob[w]].Data, TaskDone(w)) :
          /\ ~o.panics
          /\ wres' = [wres EXCEPT
                         ![w] = Result(jobs[wjob[w]].ID, o.Value, o.Err)]
          /\ wpc' = [wpc EXCEPT
                        ![w] = IF o.Err # NoErr /\ cfg.StopOnError
                               THEN "stop" ELSE "sink"]
    /\ UNCHANGED <<cancelOnce, cancelRuns, sentResults, outCh, outCloses, wjob,
                   wtask, fpc, fidx, finpc, invocations>>
    /\ UNCHANGED fixedVars
    /\ UNCHANGED envVars

\* WorkerPanic with no recover handler: the panic ends the worker goroutine.
WorkerPanic_Escapes(w) ==
    /\ wpc[w] = "running"
    /\ \E o \in WorkerFuncOutcomes(jobs[wjob[w]].Data, TaskDone(w)) : o.panics
    /\ wtask' = [wtask EXCEPT ![w] = "none"]
    /\ wpc' = [wpc EXCEPT ![w] = "done"]
    /\ UNCHANGED <<cancelOnce, cancelRuns, sentResults, outCh, outCloses, wjob,
                   wres, fpc, fidx, finpc, invocations>>
    /\ UNCHANGED fixedVars
    /\ UNCHANGED envVars

\* workerFunc panics: the deferred cancel() runs, then the recover handler
\* builds the panic Result and calls sendResult.
WorkerPanic(w) ==
    /\ wpc[w] = "running"
    /\ \E o \in WorkerFuncOutcomes(jobs[wjob[w]].Data, TaskDone(w)) :
          /\ o.panics
          /\ wres' = [wres EXCEPT
                         ![w] = Result(jobs[wjob[w]].ID, 0, ErrPanic(o.Value))]
    /\ wtask' = [wtask EXCEPT ![w] = "none"]
    /\ wpc' = [wpc EXCEPT ![w] = "sink"]
    /\ UNCHANGED <<cancelOnce, cancelRuns, sentResults, outCh, outCloses, wjob,
                   fpc, fidx, finpc, invocations>>
    /\ UNCHANGED fixedVars
    /\ UNCHANGED envVars

\* WorkerStop with the safeCancelPool() forgotten.
WorkerStop_NoCancel(w) ==
    /\ wpc[w] = "stop"
    /\ wpc' = [wpc EXCEPT ![w] = "sink"]
    /\ UNCHANGED <<cancelOnce, cancelRuns, sentResults, outCh, outCloses, wjob,
                   wtask, wres, fpc, fidx, finpc, invocations>>
    /\ UNCHANGED fixedVars
    /\ UNCHANGED envVars

\* err != nil && cfg.StopOnError: safeCancelPool(), before sendResult.
WorkerStop(w) ==
    /\ wpc[w] = "stop"
    /\ SafeCancelPool
    /\ wpc' = [wpc EXCEPT ![w] = "sink"]
    /\ UNCHANGED <<sentResults, outCh, outCloses, wjob, wtask, wres, fpc, fidx,
                   finpc, invocations>>
    /\ UNCHANGED fixedVars
    /\ UNCHANGED envVars

\* WorkerLeaveSend with no deferred cancel() of taskCtx.
WorkerLeaveSend_NoCancel(w, next) ==
    /\ wpc' = [wpc EXCEPT ![w] = next]
    /\ wres' = [wres EXCEPT ![w] = NoResult]
    /\ wtask' = wtask
    /\ wjob' = [wjob EXCEPT ![w] = IF next = "recv" THEN 0 ELSE @]

\* Worker w leaves sendResult for the position next.
WorkerLeaveSend(w, next) ==
    /\ wpc' = [wpc EXCEPT ![w] = next]
    /\ wres' = [wres EXCEPT ![w] = NoResult]
    /\ wtask' = [wtask EXCEPT ![w] = "none"]
    /\ wjob' = [wjob EXCEPT ![w] = IF next = "recv" THEN 0 ELSE @]

\* WorkerSink with a Load in place of the LoadOrStore: nothing is stored.
WorkerSink_NoStore(w) ==
    /\ wpc[w] = "sink"
    /\ sentResults' = sentResults
    /\ IF AlreadySent(wres[w].ID)
       THEN WorkerLeaveSend(w, AfterSendResult(w))
       ELSE /\ wpc' = [wpc EXCEPT ![w] = "send"]
            /\ UNCHANGED <<wres, wtask, wjob>>
    /\ UNCHANGED <<cancelOnce, cancelRuns, outCh, outCloses, fpc, fidx, finpc,
                   invocations>>
    /\ UNCHANGED fixedVars
    /\ UNCHANGED envVars

\* sendResult in worker w: LoadOrStore.
WorkerSink(w) ==
    /\ wpc[w] = "sink"
    /\ sentResults' = sentResults \cup {wres[w].ID}
    /\ IF AlreadySent(wres[w].ID)
       THEN WorkerLeaveSend(w, AfterSendResult(w))
       ELSE /\ wpc' = [wpc EXCEPT ![w] = "send"]
            /\ UNCHANGED <<wres, wtask, wjob>>
    /\ UNCHANGED <<cancelOnce, cancelRuns, outCh, outCloses, fpc, fidx, finpc,
                   invocations>>
    /\ UNCHANGED fixedVars
    /\ UNCHANGED envVars

\* WorkerSend putting the Result on outCh without its Value.
WorkerSend_NoValue(w) ==
    /\ wpc[w] = "send"
    /\ CanSend
    /\ outCh' = Append(outCh, Result(wres[w].ID, 0, wres[w].Err))
    /\ WorkerLeaveSend(w, AfterSendResult(w))
    /\ UNCHANGED <<cancelOnce, cancelRuns, sentResults, outCloses, fpc, fidx,
                   finpc, invocations>>
    /\ UNCHANGED fixedVars
    /\ UNCHANGED envVars

\* sendResult in worker w: outCh <- result.
WorkerSend(w) ==
    /\ wpc[w] = "send"
    /\ CanSend
    /\ outCh' = Append(outCh, wres[w])
    /\ WorkerLeaveSend(w, AfterSendResult(w))
    /\ UNCHANGED <<cancelOnce, cancelRuns, sentResults, outCloses, fpc, fidx,
                   finpc, invocations>>
    /\ UNCHANGED fixedVars
    /\ UNCHANGED envVars

\* WorkerRecoverStop with the safeCancelPool() forgotten.
WorkerRecoverStop_NoCancel(w) ==
    /\ wpc[w] = "recoverStop"
    /\ wpc' = [wpc EXCEPT ![w] = Unwind]
    /\ wjob' = [wjob EXCEPT ![w] = IF Unwind = "recv" THEN 0 ELSE @]
    /\ UNCHANGED <<cancelOnce, cancelRuns, sentResults, outCh, outCloses,
                   wtask, wres, fpc, fidx, finpc, invocations>>
    /\ UNCHANGED fixedVars
    /\ UNCHANGED envVars

\* The recover handler, after sendResult, with cfg.StopOnError: safeCancelPool().
WorkerRecoverStop(w) ==
    /\ wpc[w] = "recoverStop"
    /\ SafeCancelPool
    /\ wpc' = [wpc EXCEPT ![w] = Unwind]
    /\ wjob' = [wjob EXCEPT ![w] = IF Unwind = "recv" THEN 0 ELSE @]
    /\ UNCHANGED <<sentResults, outCh, outCloses, wtask, wres, fpc, fidx,
                   finpc, invocations>>
    /\ UNCHANGED fixedVars
    /\ UNCHANGED envVars

\* The deferred <-globalSemaphore.
WorkerRelease(w) ==
    /\ wpc[w] = "release"
    /\ semCount > 0
    /\ semCount' = semCount - 1
    /\ wpc' = [wpc EXCEPT ![w] = "recv"]
    /\ wjob' = [wjob EXCEPT ![w] = 0]
    /\ UNCHANGED <<callerDone, poolTimedOut, extHeld, consumed>>
    /\ UNCHANGED <<cancelOnce, cancelRuns, sentResults, outCh, outCloses,
                   wtask, wres, fpc, fidx, finpc, invocations>>
    /\ UNCHANGED fixedVars

\* feederWG.Wait() returns.
FinalizerWaitFeeder ==
    /\ finpc = "waitFeeder"
    /\ fpc = "done"
    /\ finpc' = "waitWorkers"
    /\ UNCHANGED <<cancelOnce, cancelRuns, sentResults, outCh, outCloses, wpc,
                   wjob, wtask, wres, fpc, fidx, invocations>>
    /\ UNCHANGED fixedVars
    /\ UNCHANGED envVars

\* FinalizerWaitWorkers without the workerWG.Wait().
FinalizerWaitWorkers_NoWait ==
    /\ finpc = "waitWorkers"
    /\ finpc' = "cancel"
    /\ UNCHANGED <<cancelOnce, cancelRuns, sentResults, outCh, outCloses, wpc,
                   wjob, wtask, wres, fpc, fidx, invocations>>
    /\ UNCHANGED fixedVars
    /\ UNCHANGED envVars

\* workerWG.Wait() returns.
FinalizerWaitWorkers ==
    /\ finpc = "waitWorkers"
    /\ \A w \in Workers : wpc[w] = "done"
    /\ finpc' = "cancel"
    /\ UNCHANGED <<cancelOnce, cancelRuns, sentResults, outCh, outCloses, wpc,
                   wjob, wtask, wres, fpc, fidx, invocations>>
    /\ UNCHANGED fixedVars
    /\ UNCHANGED envVars

\* FinalizerCancel going on to close(outCh) with no call of cancelPool().
FinalizerCancel_NoCall ==
    /\ finpc = "cancel"
    /\ cancelRuns' = cancelRuns
    /\ finpc' = "close"
    /\ UNCHANGED <<cancelOnce, sentResults, outCh, outCloses, wpc, wjob, wtask,
                   wres, fpc, fidx, invocations>>
    /\ UNCHANGED fixedVars
    /\ UNCHANGED envVars

\* The finalizer's cancelPool(), called directly.
FinalizerCancel ==
    /\ finpc = "cancel"
    /\ cancelRuns' = cancelRuns + 1
    /\ finpc' = "close"
    /\ UNCHANGED <<cancelOnce, sentResults, outCh, outCloses, wpc, wjob, wtask,
                   wres, fpc, fidx, invocations>>
    /\ UNCHANGED fixedVars
    /\ UNCHANGED envVars

\* The finalizer's close(outCh).
FinalizerClose ==
    /\ finpc = "close"
    /\ outCloses' = outCloses + 1
    /\ finpc' = "done"
    /\ UNCHANGED <<cancelOnce, cancelRuns, sentResults, outCh, wpc, wjob,
                   wtask, wres, fpc, fidx, invocations>>
    /\ UNCHANGED fixedVars
    /\ UNCHANGED envVars

(***************************************************************************)
(* The environment of the call.                                            *)
(***************************************************************************)

callVars == <<jobs, callerCfg, cfg, semNil, mode, outCap, epc, eidx, dupID, outCh,
              outCloses, invocations>>

\* The caller cancels ctx (or its deadline passes) after the call was made;
\* once poolCtx is done a later cancellation of ctx changes nothing in the pool.
CallerCancel ==
    /\ mode # "entry"
    /\ ~PoolDone
    /\ callerDone' = TRUE
    /\ UNCHANGED <<poolTimedOut, semCount, extHeld, consumed>>
    /\ UNCHANGED callVars
    /\ UNCHANGED poolVars

\* The GlobalTimeout timer of poolCtx fires (it is stopped once poolCtx is done).
GlobalTimeout ==
    /\ mode = "pool"
    /\ ~PoolDone
    /\ poolTimedOut' = TRUE
    /\ UNCHANGED <<callerDone, semCount, extHeld, consumed>>
    /\ UNCHANGED callVars
    /\ UNCHANGED poolVars

\* The consumer receives one Result from the returned channel.
Consume ==
    /\ mode # "entry"
    /\ consumed < Len(outCh)
    /\ consumed' = consumed + 1
    /\ UNCHANGED <<callerDone, poolTimedOut, semCount, extHeld>>
    /\ UNCHANGED callVars
    /\ UNCHANGED poolVars

\* Another user of the shared semaphore takes a permit.
ExternalAcquire ==
    /\ mode # "entry"
    /\ ~semNil
    /\ semCount < SemCap
    /\ semCount' = semCount + 1
    /\ extHeld' = extHeld + 1
    /\ UNCHANGED <<callerDone, poolTimedOut, consumed>>
    /\ UNCHANGED callVars
    /\ UNCHANGED poolVars

\* Another user of the shared semaphore gives its permit back.
ExternalRelease ==
    /\ mode # "entry"
    /\ extHeld > 0
    /\ semCount' = semCount - 1
    /\ extHeld' = extHeld - 1
    /\ UNCHANGED <<callerDone, poolTimedOut, consumed>>
    /\ UNCHANGED callVars
    /\ UNCHANGED poolVars

Next ==
    \/ EnterEmpty
    \/ EnterDuplicate
    \/ EnterCancelled
    \/ EnterPool
    \/ DupEmit
    \/ SkipEmit
    \/ EmitClose
    \/ FeederSkip
    \/ FeederSink
    \/ FeederSend
    \/ FeederClose
    \/ \E w \in Workers : Dispatch(w)
    \/ \E w \in Workers : WorkerExit(w)
    \/ \E w \in Workers : WorkerPreCheck(w)
    \/ \E w \in Workers : WorkerAcquire(w)
    \/ \E w \in Workers : WorkerAcquireSkip(w)
    \/ \E w \in Workers : WorkerInvoke(w)
    \/ \E w \in Workers : TaskTimeout(w)
    \/ \E w \in Workers : WorkerReturn(w)
    \/ \E w \in Workers : WorkerPanic(w)
    \/ \E w \in Workers : WorkerStop(w)
    \/ \E w \in Workers : WorkerSink(w)
    \/ \E w \in Workers : WorkerSend(w)
    \/ \E w \in Workers : WorkerRecoverStop(w)
    \/ \E w \in Workers : WorkerRelease(w)
    \/ FinalizerWaitFeeder
    \/ FinalizerWaitWorkers
    \/ FinalizerCancel
    \/ FinalizerClose
    \/ CallerCancel
    \/ GlobalTimeout
    \/ Consume
    \/ ExternalAcquire
    \/ ExternalRelease

Spec == Init /\ [][Next]_vars

(***************************************************************************)
(* Scheduling.  Every goroutine that can take a step eventually takes one  *)
(* (a blocked one cannot), every call of the user function comes back, and *)
(* the GlobalTimeout timer fires unless poolCtx is done before.  Nothing   *)
(* is assumed of the caller, of the consumer, of the other users of the    *)
(* semaphore or of the WorkerTimeout timers.                               *)
(***************************************************************************)

\* The most workers a call starts.
MostWorkers == IF MaxWorkers > DefaultWorkers THEN MaxWorkers ELSE DefaultWorkers

CallStep == EnterEmpty \/ EnterDuplicate \/ EnterCancelled \/ EnterPool

EmitterStep == DupEmit \/ SkipEmit \/ EmitClose

FeederStep ==
    \/ FeederSkip
    \/ FeederSink
    \/ FeederSend
    \/ FeederClose
    \/ \E w \in Workers : Dispatch(w)

WorkerStep(w) ==
    /\ w \in Workers
    /\ \/ WorkerExit(w)
       \/ WorkerPreCheck(w)
       \/ WorkerAcquire(w)
       \/ WorkerAcquireSkip(w)
       \/ WorkerInvoke(w)
       \/ WorkerReturn(w)
       \/ WorkerPanic(w)
       \/ WorkerStop(w)
       \/ WorkerSink(w)
       \/ WorkerSend(w)
       \/ WorkerRecoverStop(w)
       \/ WorkerRelease(w)

FinalizerStep ==
    \/ FinalizerWaitFeeder
    \/ FinalizerWaitWorkers
    \/ FinalizerCancel
    \/ FinalizerClose

FairSpec ==
    /\ Init
    /\ [][Next]_vars
    /\ WF_vars(CallStep)
    /\ WF_vars(EmitterStep)
    /\ WF_vars(FeederStep)
    /\ \A w \in 1..MostWorkers : WF_vars(WorkerStep(w))
    /\ WF_vars(FinalizerStep)
    /\ WF_vars(GlobalTimeout)

(***************************************************************************)
(* The configuration defaults, on their own: a call that passes the        *)
(* pre-flight checks, with every WorkerPoolConfig a caller can pass, up to *)
(* the point where poolCtx is made.                                        *)
(***************************************************************************)

\* WorkerPoolConfig with its two durations, in seconds; zero and negative
\* values select the defaults.
Configs ==
    [NumWorkers : (-1)..MaxWorkers,
     WorkerTimeout : (-1)..MaxSeconds,
     GlobalTimeout : (-1)..MaxSeconds,
     StopOnError : BOOLEAN]

\* ConfigDefaults without the last step, which raises GlobalTimeout to
\* twice a larger WorkerTimeout.
ConfigDefaults_NoRaise(c) ==
    LET global == IF c.GlobalTimeout <= 0
                  THEN DefaultGlobalTimeout ELSE c.GlobalTimeout
        worker == IF c.WorkerTimeout <= 0
                  THEN IF DefaultWorkerTimeout > global
                       THEN global ELSE DefaultWorkerTimeout
                  ELSE c.WorkerTimeout
    IN  [NumWorkers |-> DefaultNumWorkers(c.NumWorkers),
         WorkerTimeout |-> worker,
         GlobalTimeout |-> global,
         StopOnError |-> c.StopOnError]

\* ConfigDefaults with the cap of the default WorkerTimeout left out.
ConfigDefaults_NoCap(c) ==
    LET global == IF c.GlobalTimeout <= 0
                  THEN DefaultGlobalTimeout ELSE c.GlobalTimeout
        worker == IF c.WorkerTimeout <= 0
                  THEN DefaultWorkerTimeout ELSE c.WorkerTimeout
    IN  [NumWorkers |-> DefaultNumWorkers(c.NumWorkers),
         WorkerTimeout |-> worker,
         GlobalTimeout |-> IF global < worker THEN worker * 2 ELSE global,
         StopOnError |-> c.StopOnError]

\* ConfigDefaults with the cap applied to a WorkerTimeout the caller gave as
\* well.
ConfigDefaults_CapExplicit(c) ==
    LET global == IF c.GlobalTimeout <= 0
                  THEN DefaultGlobalTimeout ELSE c.GlobalTimeout
        given  == IF c.WorkerTimeout <= 0
                  THEN DefaultWorkerTimeout ELSE c.WorkerTimeout
        worker == IF given > global THEN global ELSE given
    IN  [NumWorkers |-> DefaultNumWorkers(c.NumWorkers),
         WorkerTimeout |-> worker,
         GlobalTimeout |-> IF global < worker THEN worker * 2 ELSE global,
         StopOnError |-> c.StopOnError]

\* "Apply configuration defaults": the four tests in the order of the code,
\* each on the values the ones before it have left.
ConfigDefaults(c) ==
    LET global == IF c.GlobalTimeout <= 0
                  THEN DefaultGlobalTimeout ELSE c.GlobalTimeout
        worker == IF c.WorkerTimeout <= 0
                  THEN IF DefaultWorkerTimeout > global
                       THEN global ELSE DefaultWorkerTimeout
                  ELSE c.WorkerTimeout
    IN  [NumWorkers |-> DefaultNumWorkers(c.NumWorkers),
         WorkerTimeout |-> worker,
         GlobalTimeout |-> IF global < worker THEN worker * 2 ELSE global,
         StopOnError |-> c.StopOnError]

\* A call with a batch of one job, a live ctx and no semaphore.
ConfigInit ==
    /\ jobs = <<Job(1, MaxBatch)>>
    /\ cfg \in Configs
    /\ callerCfg = cfg
    /\ semNil = TRUE
    /\ mode = "entry"
    /\ callerDone = FALSE
    /\ poolTimedOut = FALSE
    /\ cancelOnce = FALSE
    /\ cancelRuns = 0
    /\ sentResults = {}
    /\ outCh = <<>>
    /\ outCap = 0
    /\ consumed = 0
    /\ outCloses = 0
    /\ extHeld = 0
    /\ semCount = 0
    /\ wpc = <<>>
    /\ wjob = <<>>
    /\ wtask = <<>>
    /\ wres = <<>>
    /\ fpc = "none"
    /\ fidx = 0
    /\ finpc = "none"
    /\ epc = "none"
    /\ eidx = 0
    /\ dupID = 0
    /\ invocations = [i \in 1..Len(jobs) |-> 0]

\* The call passes the pre-flight checks and sets the defaults on cfg.
ApplyDefaults ==
    /\ mode = "entry"
    /\ StartsPool(jobs, callerDone)
    /\ mode' = "defaults"
    /\ cfg' = ConfigDefaults(cfg)
    /\ UNCHANGED <<jobs, callerCfg, semNil, outCap, epc, eidx, dupID, outCh,
                   outCloses, invocations>>
    /\ UNCHANGED poolVars
    /\ UNCHANGED envVars

ConfigNext == ApplyDefaults

ConfigSpec == ConfigInit /\ [][ConfigNext]_vars

(***************************************************************************)
(* sendResult on its own: sentResults and outCh as the pool makes them for *)
(* a batch with unique ids, and goroutines that call sendResult with any   *)
(* Result of any of these ids, any number of times, in any interleaving    *)
(* of the LoadOrStore and the send.  The Value of a Result names the       *)
(* goroutine that made the call.                                           *)
(***************************************************************************)

Producers == 1..MaxProducers

SinkInit ==
    /\ jobs = [i \in 1..MaxJobs |-> Job(i, MaxBatch + 1 - i)]
    /\ cfg = [NumWorkers |-> MaxProducers, StopOnError |-> FALSE]
    /\ callerCfg = cfg
    /\ semNil = TRUE
    /\ mode = "sink"
    /\ callerDone = FALSE
    /\ poolTimedOut = FALSE
    /\ cancelOnce = FALSE
    /\ cancelRuns = 0
    /\ sentResults = {}
    /\ outCh = <<>>
    /\ outCap = Len(jobs)
    /\ consumed = 0
    /\ outCloses = 0
    /\ extHeld = 0
    /\ semCount = 0
    /\ wpc = [p \in Producers |-> "recv"]
    /\ wjob = [p \in Producers |-> 0]
    /\ wtask = [p \in Producers |-> "none"]
    /\ wres = [p \in Producers |-> NoResult]
    /\ fpc = "none"
    /\ fidx = 0
    /\ finpc = "none"
    /\ epc = "none"
    /\ eidx = 0
    /\ dupID = 0
    /\ invocations = [i \in 1..Len(jobs) |-> 0]

\* Goroutine p calls sendResult(result) with a Result of one of the ids.
SinkCall(p) ==
    /\ mode = "sink"
    /\ wpc[p] = "recv"
    /\ \E i \in DOMAIN jobs :
          wres' = [wres EXCEPT ![p] = Result(jobs[i].ID, p, NoErr)]
    /\ wpc' = [wpc EXCEPT ![p] = "sink"]
    /\ UNCHANGED <<cancelOnce, cancelRuns, sentResults, outCh, outCloses, wjob,
                   wtask, fpc, fidx, finpc, invocations>>
    /\ UNCHANGED fixedVars
    /\ UNCHANGED envVars

SinkNext ==
    \/ \E p \in Producers : SinkCall(p)
    \/ \E p \in Producers : WorkerSink(p)
    \/ \E p \in Producers : WorkerSend(p)
    \/ Consume

SinkSpec == SinkInit /\ [][SinkNext]_vars

(***************************************************************************)
(* Properties.                                                             *)
(***************************************************************************)

\* Two jobs of the batch carry the same ID.
HasDuplicate(js) ==
    \E i, j \in DOMAIN js : i < j /\ js[i].ID = js[j].ID

\* How many Results with the given id were sent on outCh.
Delivered(id) == Cardinality({k \in DOMAIN outCh : outCh[k].ID = id})

\* Nothing of the pool exists: no worker, no feeder, no finalizer, no
\* invocation of the user function, no permit taken.
NothingStarted ==
    /\ Workers = {}
    /\ fpc = "none"
    /\ finpc = "none"
    /\ \A i \in DOMAIN jobs : invocations[i] = 0
    /\ PoolHeld = 0
    /\ cancelRuns = 0

\* C8: a batch with a repeated id is rejected as a whole: the output carries,
\* in input order, one Result per job with one and the same duplicate error
\* naming a repeated id, is then closed, and nothing of the pool is started.
DuplicateRejected ==
    (HasDuplicate(jobs) /\ mode # "entry") =>
        /\ mode = "dup"
        /\ Len(outCh) <= Len(jobs)
        /\ \E i, j \in DOMAIN jobs :
              /\ i < j
              /\ jobs[i].ID = jobs[j].ID
              /\ \A k \in DOMAIN outCh :
                    outCh[k] = Result(jobs[k].ID, 0, ErrDuplicate(jobs[j].ID))
        /\ outCloses <= 1
        /\ (outCloses = 1 <=> epc = "done")
        /\ (outCloses = 1 => Len(outCh) = Len(jobs))
        /\ NothingStarted

\* C8 witness: a rejected batch of three jobs, two ids, fully reported and closed.
DuplicateRejectedWitness ==
    /\ mode = "dup"
    /\ outCloses = 1
    /\ Len(jobs) = MaxBatch
    /\ jobs[1].ID # jobs[2].ID
    /\ Len(outCh) = MaxBatch

\* What the output of a call with an already cancelled ctx looks like.
CancelledOutput ==
    /\ Len(outCh) <= Len(jobs)
    /\ \A k \in DOMAIN outCh : outCh[k] = Result(jobs[k].ID, 0, ErrSkipped)
    /\ outCloses <= 1
    /\ (outCloses = 1 <=> epc = "done")
    /\ (outCloses = 1 => Len(outCh) = Len(jobs))
    /\ NothingStarted

\* C9: a call whose ctx is already done (batch non-empty, ids unique) takes
\* the skipping path, whose output is one ErrSkipped Result per job in input
\* order and then the close, with nothing of the pool started.
CallerCancelledSkipsAll ==
    /\ [](mode = "cancelled" => CancelledOutput)
    /\ [][(mode = "entry" /\ callerDone /\ Len(jobs) > 0 /\ ~HasDuplicate(jobs))
            => mode' = "cancelled"]_vars

\* C9 witness: three jobs, all reported as skipped, output closed.
CallerCancelledWitness ==
    /\ mode = "cancelled"
    /\ outCloses = 1
    /\ Len(jobs) = MaxBatch
    /\ Len(outCh) = MaxBatch

\* C10: for an empty batch the channel is closed when it is returned, it
\* never carries a Result and nothing of the pool is started.
EmptyBatchClosed ==
    (Len(jobs) = 0 /\ mode # "entry") =>
        /\ mode = "empty"
        /\ outCloses = 1
        /\ outCh = <<>>
        /\ consumed = 0
        /\ epc = "none"
        /\ NothingStarted

\* C10 witness: an empty batch, with ctx already done and a semaphore in use.
EmptyBatchWitness ==
    /\ mode = "empty"
    /\ Len(jobs) = 0
    /\ callerDone
    /\ ~semNil
    /\ extHeld > 0
    /\ cfg.StopOnError

\* C1: when the output of a started pool is closed it holds exactly one
\* Result per job id of the batch, none missing and none repeated.
OneToOne ==
    (mode = "pool" /\ outCloses > 0) =>
        /\ Len(outCh) = Len(jobs)
        /\ \A i \in DOMAIN jobs : Delivered(jobs[i].ID) = 1

\* C1 witness: a closed output of a full batch holding a skipped job and a
\* panic, after a cancellation by the caller.
OneToOneWitness ==
    /\ mode = "pool"
    /\ outCloses = 1
    /\ Len(jobs) = MaxJobs
    /\ callerDone
    /\ \E k \in DOMAIN outCh : outCh[k].Err = ErrSkipped
    /\ \E k \in DOMAIN outCh : outCh[k].Err.kind = "panic"

\* Every goroutine that sends on outCh has ended.
SendersEnded ==
    /\ fpc \in {"none", "done"}
    /\ epc \in {"none", "done"}
    /\ \A w \in Workers : wpc[w] = "done"

\* C2: close(outCh) runs at most once, exactly once by the time the
\* finalizer has ended, and only when the feeder and every worker have
\* ended, so that no send can follow it.
CloseOnce ==
    /\ outCloses <= 1
    /\ (outCloses = 1 => SendersEnded)
    /\ (finpc = "done" => outCloses = 1)

\* C2 witness: the finalizer has closed the output of a two-worker pool
\* after the feeder and both workers have written to it.
CloseOnceWitness ==
    /\ mode = "pool"
    /\ finpc = "done"
    /\ outCloses = 1
    /\ cfg.NumWorkers = DefaultWorkers
    /\ Len(outCh) = MaxJobs
    /\ \E k \in DOMAIN outCh : outCh[k].Err.kind = "nil"

\* Worker w is between taking a permit and giving it back.
HoldsPermit(w) ==
    /\ ~semNil
    /\ \/ wpc[w] \in {"invoke", "running", "stop", "recoverStop", "release"}
       \/ wpc[w] \in {"sink", "send"} /\ wres[w].Err # ErrSkipped

\* C3: the permits the pool holds are exactly those of the workers inside an
\* iteration that took one, whatever way the iteration takes, and the pool
\* holds none once the output is closed, read or not.
LimiterNeutral ==
    /\ PoolHeld = Cardinality({w \in Workers : HoldsPermit(w)})
    /\ (outCloses > 0 => PoolHeld = 0)
    /\ semNil => semCount = 0

\* C3 witness: a closed, unread output of a pool with a semaphore whose
\* iterations ended by a panic and by a returned error.
LimiterNeutralWitness ==
    /\ mode = "pool"
    /\ ~semNil
    /\ outCloses = 1
    /\ consumed = 0
    /\ \E k \in DOMAIN outCh : outCh[k].Err.kind = "panic"
    /\ \E k \in DOMAIN outCh : outCh[k].Err.kind = "user"

\* The index of the job with the given id, in a batch with unique ids.
JobIndex(id) == CHOOSE i \in DOMAIN jobs : jobs[i].ID = id

\* The Results an invocation of the user function for the job can lead to.
OutcomeResults(job) ==
    { IF o.panics
      THEN Result(job.ID, 0, ErrPanic(o.Value))
      ELSE Result(job.ID, o.Value, o.Err) :
      o \in WorkerFuncOutcomes(job.Data, TRUE) }

\* C6: a job reported as skipped was never handed to the user function, and
\* a job handed to the user function is reported with an outcome of that
\* invocation, never as skipped.
SkippedXorInvoked ==
    mode = "pool" =>
        /\ \A k \in DOMAIN outCh :
              IF outCh[k].Err = ErrSkipped
              THEN invocations[JobIndex(outCh[k].ID)] = 0
              ELSE /\ invocations[JobIndex(outCh[k].ID)] = 1
                   /\ outCh[k] \in OutcomeResults(jobs[JobIndex(outCh[k].ID)])
        /\ \A w \in Workers :
              wres[w].Err = ErrSkipped => invocations[wjob[w]] = 0
        /\ outCloses > 0 =>
              \A i \in DOMAIN jobs :
                  invocations[i] > 0 =>
                      \E k \in DOMAIN outCh :
                          outCh[k].ID = jobs[i].ID /\ outCh[k].Err # ErrSkipped

\* C6 witness: a closed output with one job skipped and one job invoked
\* while poolCtx was already done.
SkippedXorInvokedWitness ==
    /\ mode = "pool"
    /\ outCloses = 1
    /\ \E k \in DOMAIN outCh : outCh[k].Err = ErrSkipped
    /\ \E k \in DOMAIN outCh : outCh[k].Err = ErrDeadline

\* The workers that have passed the pre-check for their job and have not
\* yet entered the user function.
Committed == {w \in Workers : wpc[w] \in {"acquire", "invoke"}}

\* A step that starts no invocation but those of workers that were past the
\* pre-check before it, and lets no worker pass the pre-check.
OnlyCommittedInvoke ==
    /\ Committed' \subseteq Committed
    /\ invocations' # invocations => Committed' # Committed

\* C4 as claimed: once poolCtx is done, no invocation of the user function
\* begins any more.
NoInvocationAfterCancel ==
    [][PoolDone => invocations' = invocations]_vars

\* C4 as amended: once poolCtx is done no worker passes the pre-check any
\* more, and an invocation that still begins is that of a worker which had
\* passed the pre-check for its job before.
CancelStopsNewWork ==
    [][PoolDone => OnlyCommittedInvoke]_vars

\* C4 witness: poolCtx is done, one worker has seen it in its pre-check and
\* skips its job, the other one is past the pre-check and about to enter
\* the user function.
CancelStopsNewWorkWitness ==
    /\ mode = "pool"
    /\ PoolDone
    /\ \E w \in Workers : wpc[w] = "invoke"
    /\ \E w \in Workers : wpc[w] = "sink" /\ wres[w].Err = ErrSkipped

\* A Result with an error returned by the user function, or with a
\* recovered panic, has been sent on outCh.
ErrorEmitted ==
    \E k \in DOMAIN outCh : outCh[k].Err.kind \in {"user", "deadline", "panic"}

\* C5 as claimed: with StopOnError, once such a Result has been emitted no
\* invocation of the user function begins any more.
NoInvocationAfterError ==
    [][(mode = "pool" /\ cfg.StopOnError /\ ErrorEmitted)
          => invocations' = invocations]_vars

\* C5 as amended: with StopOnError, once such a Result has been emitted and
\* the recover handler that emitted it has called safeCancelPool, no
\* worker passes the pre-check any more and only a worker that had passed
\* it before can still enter the user function; with a single worker none
\* does.
StopOnErrorStopsNewWork ==
    /\ [][(/\ mode = "pool"
           /\ cfg.StopOnError
           /\ ErrorEmitted
           /\ \A w \in Workers : wpc[w] # "recoverStop")
             => OnlyCommittedInvoke]_vars
    /\ [][(mode = "pool" /\ cfg.StopOnError /\ ErrorEmitted /\ cfg.NumWorkers = 1)
             => invocations' = invocations]_vars

\* C5 witness: with StopOnError an error Result is out, poolCtx is done and
\* the other worker, past its pre-check, is about to enter the user function.
StopOnErrorWitness ==
    /\ mode = "pool"
    /\ cfg.StopOnError
    /\ ErrorEmitted
    /\ PoolDone
    /\ \A w \in Workers : wpc[w] # "recoverStop"
    /\ \E w \in Workers : wpc[w] = "invoke"

\* C7: every call ends: the output is eventually closed, holding one Result
\* per job.
Terminates == <>(outCloses = 1 /\ Len(outCh) = Len(jobs))

\* C7 witness: a pool has ended although nothing was read from its output,
\* all permits of the semaphore are with other users and the GlobalTimeout
\* timer has fired.
TerminatesWitness ==
    /\ mode = "pool"
    /\ finpc = "done"
    /\ outCloses = 1
    /\ Len(outCh) = MaxJobs
    /\ consumed = 0
    /\ ~semNil
    /\ extHeld = SemCap
    /\ poolTimedOut

\* No cancellation source has fired: ctx is not done, the GlobalTimeout timer
\* has not fired and safeCancelPool was not called.
NoCancelSource == ~callerDone /\ ~poolTimedOut /\ ~cancelOnce

\* C11: while no cancellation source has fired, every Result on the output
\* carries the id of a job of the batch together with what the user function
\* gave for that job's Data, none is the skipped sentinel, and at the close
\* every job was invoked once and has its one Result, for any number of
\* workers, with or without a semaphore.
HappyPath ==
    (mode = "pool" /\ NoCancelSource) =>
        /\ \A k \in DOMAIN outCh :
              /\ \E i \in DOMAIN jobs : outCh[k].ID = jobs[i].ID
              /\ outCh[k] \in OutcomeResults(jobs[JobIndex(outCh[k].ID)])
              /\ outCh[k].Err # ErrSkipped
        /\ outCloses > 0 =>
              \A i \in DOMAIN jobs :
                  /\ invocations[i] = 1
                  /\ Delivered(jobs[i].ID) = 1

\* C11 witness: a closed output of a full batch run by two workers through
\* a semaphore with StopOnError set, every job with the value the user
\* function returned for it and no timer fired.
HappyPathWitness ==
    /\ mode = "pool"
    /\ NoCancelSource
    /\ outCloses = 1
    /\ cfg.NumWorkers = DefaultWorkers
    /\ cfg.StopOnError
    /\ ~semNil
    /\ Len(jobs) = MaxJobs
    /\ \A i \in DOMAIN jobs :
          \E k \in DOMAIN outCh :
              outCh[k] = Result(jobs[i].ID, jobs[i].Data + 1, NoErr)

\* The Result the recover handler builds for a job: the job's id and the
\* error "panic: <value>" with the value the user function panicked with.
PanicResult(job) == Result(job.ID, 0, ErrPanic(job.Data))

\* Worker w is in the recover handler, on its way through sendResult.
Recovering(w) == wres[w].Err.kind = "panic"

\* The state of a pool in which panics are contained.
PanicHandled ==
    /\ \A w \in Workers :
          Recovering(w) =>
              /\ wpc[w] \in {"sink", "send"}
              /\ wres[w] = PanicResult(jobs[wjob[w]])
              /\ Delivered(wres[w].ID) = 0
              /\ wpc[w] = "sink" => ~AlreadySent(wres[w].ID)
    /\ \A k \in DOMAIN outCh :
          outCh[k].Err.kind = "panic" =>
              /\ outCh[k] = PanicResult(jobs[JobIndex(outCh[k].ID)])
              /\ Delivered(outCh[k].ID) = 1
    /\ outCloses > 0 =>
          /\ Len(outCh) = Len(jobs)
          /\ \A w \in Workers : ~Recovering(w)
          /\ (~cfg.StopOnError /\ ~callerDone /\ ~poolTimedOut) =>
                \A i \in DOMAIN jobs :
                    \E k \in DOMAIN outCh :
                        /\ outCh[k] \in OutcomeResults(jobs[i])
                        /\ Delivered(jobs[i].ID) = 1

\* C12: a panic of the user function stays inside the worker: the recover
\* handler turns it into the one Result of that job, with the job's id and
\* the error "panic: <value>", the worker goes on with its loop, and without
\* StopOnError (and with no cancellation from outside) every job of the
\* batch has its own outcome in the closed output, one Result per job.
PanicContained ==
    /\ [](mode = "pool" => PanicHandled)
    /\ [][\A w \in Workers :
            (wpc[w] = "running" /\ wpc'[w] # "running") =>
                /\ wpc'[w] \in {"sink", "stop"}
                /\ wres'[w] \in OutcomeResults(jobs[wjob[w]])]_vars
    /\ [][\A w \in Workers :
            (Recovering(w) /\ wpc[w] = "send" /\ wpc'[w] # "send") =>
                /\ outCh' = Append(outCh, wres[w])
                /\ wpc'[w] \in {"recv", "release", "recoverStop"}]_vars

\* C12 witness: a single worker without StopOnError has reported the panic
\* of the first job and then the success of the second one; the output is
\* closed.
PanicContainedWitness ==
    /\ mode = "pool"
    /\ ~cfg.StopOnError
    /\ cfg.NumWorkers = 1
    /\ outCloses = 1
    /\ Len(outCh) = Len(jobs)
    /\ Len(jobs) >= 2
    /\ outCh[1] = PanicResult(jobs[1])
    /\ outCh[2] = Result(jobs[2].ID, jobs[2].Data + 1, NoErr)

\* Worker w is in the part of an iteration that follows a failed invocation
\* (an error returned, the context's error included, or a panic) and comes
\* before the deferred release and the next receive.
FailedIteration(w) ==
    \/ wpc[w] \in {"stop", "recoverStop"}
    \/ /\ wpc[w] \in {"sink", "send"}
       /\ wres[w].Err.kind \in {"user", "deadline", "panic"}

\* C13: with StopOnError, a worker whose invocation returned an error or
\* panicked leaves that part of the iteration only with safeCancelPool
\* called and poolCtx done, that is before it can receive its next job.
StopOnErrorTrips ==
    [][(mode = "pool" /\ cfg.StopOnError) =>
          \A w \in Workers :
              (FailedIteration(w) /\ ~FailedIteration(w)') =>
                  /\ cancelOnce'
                  /\ PoolDone'
                  /\ wpc'[w] \in {"recv", "release"}]_vars

\* C13 witness: with StopOnError and nothing else cancelling, the first
\* invocation has returned the error of its expired deadline, the token is
\* tripped and the worker is back at its receive with a job still to come.
StopOnErrorTripsWitness ==
    /\ mode = "pool"
    /\ cfg.StopOnError
    /\ ~callerDone
    /\ ~poolTimedOut
    /\ cancelOnce
    /\ Len(outCh) = 1
    /\ outCh[1].Err = ErrDeadline
    /\ fpc = "offer"
    /\ fidx <= Len(jobs)
    /\ \A w \in Workers : wpc[w] = "recv"

\* Worker w is inside the user function or in what follows a failed
\* invocation.
InTask(w) == wpc[w] = "running" \/ FailedIteration(w)

\* A step of worker w leaves alone poolCtx, the Results and the task
\* contexts of the other workers and the Results already on the output, to
\* which it can only add its own.
TouchesOwnOnly(w) ==
    /\ PoolDone' = PoolDone
    /\ cancelRuns' = cancelRuns
    /\ \A v \in Workers \ {w} :
          wres'[v] = wres[v] /\ wtask'[v] = wtask[v] /\ wpc'[v] = wpc[v]
    /\ outCh' = outCh \/ outCh' = Append(outCh, wres[w])

\* C14: without StopOnError safeCancelPool is never called, so cancelPool
\* runs only in the finalizer when the feeder and the workers have ended;
\* an error, a panic or an expired WorkerTimeout of one job changes neither
\* poolCtx nor what the other workers hold or have sent; and as long as
\* neither ctx nor the GlobalTimeout cancels, no job is skipped.
ErrorIsolation ==
    /\ []((mode = "pool" /\ ~cfg.StopOnError) =>
            /\ ~cancelOnce
            /\ cancelRuns > 0 => (finpc \in {"close", "done"} /\ SendersEnded)
            /\ (~callerDone /\ ~poolTimedOut) =>
                  /\ \A k \in DOMAIN outCh : outCh[k].Err # ErrSkipped
                  /\ \A w \in Workers : wres[w].Err # ErrSkipped
                  /\ fpc \notin {"sink", "send"})
    /\ [][(mode = "pool" /\ ~cfg.StopOnError) =>
            \A w \in Workers :
                (InTask(w) /\ (wpc'[w] # wpc[w] \/ wtask'[w] # wtask[w]))
                    => TouchesOwnOnly(w)]_vars

\* C14 witness: without StopOnError and with nothing cancelling from
\* outside, the closed output of a full batch starts with the error of an
\* expired WorkerTimeout and ends with a success.
ErrorIsolationWitness ==
    /\ mode = "pool"
    /\ ~cfg.StopOnError
    /\ ~callerDone
    /\ ~poolTimedOut
    /\ outCloses = 1
    /\ Len(outCh) = MaxJobs
    /\ outCh[1].Err = ErrDeadline
    /\ outCh[Len(outCh)].Err = NoErr

\* The output of a pool with StopOnError is closed and neither ctx nor the
\* GlobalTimeout timer has fired.
StopOnErrorRunEnded ==
    /\ mode = "pool"
    /\ cfg.StopOnError
    /\ ~callerDone
    /\ ~poolTimedOut
    /\ outCloses > 0

\* A Result with an error returned by the user function is on the output.
UserErrorEmitted == \E k \in DOMAIN outCh : outCh[k].Err = ErrUser

\* The skipped sentinel is on the output.
SkippedEmitted == \E k \in DOMAIN outCh : outCh[k].Err = ErrSkipped

\* C15 as claimed: in such a run of a batch with more jobs than workers in
\* which a job's user function returned an error, the output holds one
\* Result per job, a user error among them and a skipped one among them.
StopOnErrorAlwaysSkips ==
    (StopOnErrorRunEnded /\ Len(jobs) > cfg.NumWorkers /\ UserErrorEmitted) =>
        /\ \A i \in DOMAIN jobs : Delivered(jobs[i].ID) = 1
        /\ UserErrorEmitted
        /\ SkippedEmitted

\* C15 as amended: in such a run the output holds one Result per job; the
\* token was tripped exactly if a failed invocation is reported on it; and
\* the skipped Results are exactly those of the jobs never handed to the
\* user function, of which there are none unless the token was tripped.
StopOnErrorOutcome ==
    StopOnErrorRunEnded =>
        /\ Len(outCh) = Len(jobs)
        /\ \A i \in DOMAIN jobs : Delivered(jobs[i].ID) = 1
        /\ cancelOnce <=> ErrorEmitted
        /\ \A k \in DOMAIN outCh :
              outCh[k].Err = ErrSkipped <=> invocations[JobIndex(outCh[k].ID)] = 0
        /\ SkippedEmitted => cancelOnce

\* C15 witness: more jobs than workers, the first job's user function
\* returned an error, the second job was skipped.
StopOnErrorOutcomeWitness ==
    /\ StopOnErrorRunEnded
    /\ Len(jobs) > cfg.NumWorkers
    /\ Len(outCh) = Len(jobs)
    /\ UserErrorEmitted
    /\ SkippedEmitted

\* Job i is still to be decided: the feeder has not handed it to a worker,
\* or the worker that received it has not made its pre-check.
Pending(i) ==
    \/ fpc = "offer" /\ i >= fidx
    \/ fpc \in {"sink", "send"} /\ i > fidx
    \/ \E w \in Workers : wjob[w] = i /\ wpc[w] = "precheck"

\* The skipped Result of job i is on its way through sendResult.
Skipping(i) ==
    \/ fpc \in {"sink", "send"} /\ i = fidx
    \/ \E w \in Workers :
          wjob[w] = i /\ wpc[w] \in {"sink", "send"} /\ wres[w].Err = ErrSkipped

\* The skipped Result of job i is on the output.
Skipped(i) ==
    \E k \in DOMAIN outCh : outCh[k] = Result(jobs[i].ID, 0, ErrSkipped)

\* Where job i stands on the way to a skipped Result.
SkipStage(i) ==
    CASE Pending(i) -> "pending"
      [] Skipping(i) -> "skipping"
      [] Skipped(i) -> "skipped"
      [] OTHER -> "none"

\* C16: once poolCtx is done, whatever made it so, a job that the feeder
\* still has, or that a worker has received and not yet looked at, can only
\* go on to sendResult with the skipped sentinel and from there to the
\* output; the user function is never entered for it; and no such job is
\* left when the output is closed.
RemainingSkipped ==
    /\ [][(mode = "pool" /\ PoolDone) =>
            \A i \in DOMAIN jobs :
                LET before == SkipStage(i)
                    after == SkipStage(i)'
                IN  before # "none" =>
                        /\ invocations'[i] = 0
                        /\ \/ after = before
                           \/ before = "pending" /\ after = "skipping"
                           \/ before = "skipping" /\ after = "skipped"]_vars
    /\ []((mode = "pool" /\ outCloses > 0) =>
            \A i \in DOMAIN jobs : SkipStage(i) \in {"skipped", "none"})

\* C16 witness: the single worker has tripped the token with the error of
\* the first job, has then received the second job and is sending the
\* skipped sentinel for it, the user function not entered.
RemainingSkippedWitness ==
    /\ mode = "pool"
    /\ cfg.NumWorkers = 1
    /\ Len(jobs) >= 2
    /\ cancelOnce
    /\ ~callerDone
    /\ ~poolTimedOut
    /\ invocations[1] = 1
    /\ wpc[1] = "send"
    /\ wres[1] = Result(jobs[2].ID, 0, ErrSkipped)
    /\ invocations[2] = 0

\* C17: the expiry of worker w's WorkerTimeout closes the Done channel of
\* w's taskCtx and nothing else: poolCtx, cancelOnce and the task contexts
\* and positions of the other workers are as before; an expired taskCtx
\* exists only while its own invocation and the sending of its Result
\* last; and the worker that reports the deadline error goes on to its
\* deferred release and its next receive.
TaskDeadlineIsolated ==
    /\ [][\A w \in Workers :
            (wtask[w] = "live" /\ wtask'[w] = "expired") =>
                /\ TaskDone(w)'
                /\ PoolDone' = PoolDone
                /\ cancelOnce' = cancelOnce
                /\ cancelRuns' = cancelRuns
                /\ wpc' = wpc
                /\ \A v \in Workers \ {w} :
                      wtask'[v] = wtask[v] /\ TaskDone(v)' = TaskDone(v)]_vars
    /\ [][\A w \in Workers :
            (wres[w].Err = ErrDeadline /\ wpc[w] = "send" /\ wpc'[w] # "send")
                => wpc'[w] \in {"recv", "release"}]_vars
    /\ [](\A w \in Workers :
            /\ wtask[w] = "expired" => wpc[w] \in {"running", "stop", "sink", "send"}
            /\ wpc[w] \in {"recv", "precheck", "acquire", "invoke", "done"}
                  => wtask[w] = "none")

\* C17 witness: the WorkerTimeout of one worker's task has expired while
\* the other worker is inside the user function with its context not done
\* and poolCtx not done.
TaskDeadlineWitness ==
    /\ mode = "pool"
    /\ ~PoolDone
    /\ \E w, v \in Workers :
          /\ w # v
          /\ wtask[w] = "expired"
          /\ wpc[v] = "running"
          /\ wtask[v] = "live"
          /\ ~TaskDone(v)

\* The ids of the batch.
JobIDs == {jobs[i].ID : i \in DOMAIN jobs}

\* C18: at every moment of a call whose batch passed the duplicate check,
\* the Results sent so far carry pairwise different ids, all of them ids of
\* jobs of the batch; in a pool each of them went through sentResults, and
\* sentResults holds nothing but ids of the batch.
OutputPrefix ==
    ~HasDuplicate(jobs) =>
        /\ \A k, l \in DOMAIN outCh : k # l => outCh[k].ID # outCh[l].ID
        /\ \A k \in DOMAIN outCh : outCh[k].ID \in JobIDs
        /\ sentResults \subseteq JobIDs
        /\ mode = "pool" => \A k \in DOMAIN outCh : outCh[k].ID \in sentResults

\* C18 witness: an open output in the middle of a run: the Result of the
\* first job's invocation is on it and the feeder is about to add the
\* skipped Result of the last job.
OutputPrefixWitness ==
    /\ mode = "pool"
    /\ outCloses = 0
    /\ Len(jobs) = MaxJobs
    /\ Len(outCh) = MaxJobs - 1
    /\ outCh[1].Err = NoErr
    /\ fpc = "send"
    /\ fidx = Len(jobs)

\* The smaller of two durations.
MinDuration(a, b) == IF a < b THEN a ELSE b

\* The GlobalTimeout the caller supplied, or the default in its place.
SuppliedGlobal ==
    IF callerCfg.GlobalTimeout <= 0
    THEN DefaultGlobalTimeout ELSE callerCfg.GlobalTimeout

\* C19: after the defaults, NumWorkers <= 0 has become 2, GlobalTimeout <= 0
\* has become 30 s, WorkerTimeout <= 0 has become 15 s or that GlobalTimeout
\* if it is smaller, a GlobalTimeout below the WorkerTimeout has become
\* twice the WorkerTimeout, and what the caller gave positive is kept
\* otherwise, StopOnError included.
ConfigDefaultsApplied ==
    mode = "defaults" =>
        LET worker == IF callerCfg.WorkerTimeout <= 0
                      THEN MinDuration(DefaultWorkerTimeout, SuppliedGlobal)
                      ELSE callerCfg.WorkerTimeout
        IN  /\ cfg.NumWorkers = IF callerCfg.NumWorkers <= 0
                                THEN DefaultWorkers ELSE callerCfg.NumWorkers
            /\ cfg.WorkerTimeout = worker
            /\ cfg.GlobalTimeout = IF SuppliedGlobal < worker
                                   THEN 2 * worker ELSE SuppliedGlobal
            /\ cfg.StopOnError = callerCfg.StopOnError

\* C19 witness: no worker count, no WorkerTimeout and a GlobalTimeout of
\* 10 s given: two workers, the default WorkerTimeout capped at 10 s.
ConfigDefaultsWitness ==
    /\ mode = "defaults"
    /\ callerCfg.NumWorkers = 0
    /\ callerCfg.WorkerTimeout = 0
    /\ callerCfg.GlobalTimeout = 10
    /\ cfg.NumWorkers = DefaultWorkers
    /\ cfg.WorkerTimeout = 10
    /\ cfg.GlobalTimeout = 10

\* C20 as claimed: the WorkerTimeout in use never exceeds the GlobalTimeout
\* the caller supplied (or its default), given or defaulted alike.
WorkerTimeoutCapped ==
    mode = "defaults" => cfg.WorkerTimeout <= SuppliedGlobal

\* C20 as amended: a defaulted WorkerTimeout never exceeds the GlobalTimeout
\* the caller supplied (or its default), which is then the one in use; a
\* WorkerTimeout the caller gave is kept as it is, and where it exceeds the
\* supplied GlobalTimeout it is the GlobalTimeout that gives way, to twice
\* the WorkerTimeout; either way the WorkerTimeout in use does not exceed
\* the GlobalTimeout in use.
DefaultWorkerTimeoutCapped ==
    mode = "defaults" =>
        /\ callerCfg.WorkerTimeout <= 0 =>
              /\ cfg.WorkerTimeout <= SuppliedGlobal
              /\ cfg.GlobalTimeout = SuppliedGlobal
        /\ callerCfg.WorkerTimeout > 0 =>
              /\ cfg.WorkerTimeout = callerCfg.WorkerTimeout
              /\ callerCfg.WorkerTimeout > SuppliedGlobal =>
                    cfg.GlobalTimeout = 2 * callerCfg.WorkerTimeout
        /\ cfg.WorkerTimeout <= cfg.GlobalTimeout

\* C20 witness: a WorkerTimeout of 20 s given with a GlobalTimeout of 10 s:
\* the WorkerTimeout stays, the GlobalTimeout is 40 s.
DefaultWorkerTimeoutWitness ==
    /\ mode = "defaults"
    /\ callerCfg.WorkerTimeout = 20
    /\ callerCfg.GlobalTimeout = 10
    /\ cfg.WorkerTimeout = 20
    /\ cfg.GlobalTimeout = 40

\* The workers that are inside the user function.
Invoking == {w \in Workers : wpc[w] = "running"}

\* The jobs whose invocation is in progress.
JobsInProgress == {wjob[w] : w \in Invoking}

\* C21: a pool has exactly as many workers as cfg.NumWorkers says once the
\* default is set (the caller's count, or 2 when that is <= 0); every
\* worker has one job at most, so the invocations in progress are those of
\* different jobs, at most NumWorkers of them, and with a semaphore at most
\* as many as it has permits.
WorkerCount ==
    mode = "pool" =>
        /\ cfg.NumWorkers = IF callerCfg.NumWorkers <= 0
                            THEN DefaultWorkers ELSE callerCfg.NumWorkers
        /\ Workers = 1..cfg.NumWorkers
        /\ Cardinality(JobsInProgress) = Cardinality(Invoking)
        /\ \A w \in Invoking : invocations[wjob[w]] = 1
        /\ Cardinality(Invoking) <= cfg.NumWorkers
        /\ ~semNil => Cardinality(Invoking) <= SemCap

\* C21 witness: no count given, no semaphore: two workers, both inside the
\* user function.
WorkerCountWitness ==
    /\ mode = "pool"
    /\ callerCfg.NumWorkers = 0
    /\ semNil
    /\ Cardinality(Invoking) = DefaultWorkers

\* Worker w is in sendResult with an error the user function returned.
SendingError(w) ==
    wpc[w] \in {"sink", "send"} /\ wres[w].Err.kind \in {"user", "deadline"}

\* C22 as claimed: with StopOnError, when safeCancelPool has been called the
\* Result of the failed invocation is on the output already.
EnqueueBeforeCancel ==
    (mode = "pool" /\ cfg.StopOnError /\ cancelOnce) => ErrorEmitted

\* C22 as amended: with StopOnError, a Result with an error the user
\* function returned enters sendResult, and so reaches the output, only
\* with safeCancelPool called before; the Result of a recovered panic is on
\* the output when the recover handler calls safeCancelPool; and
\* safeCancelPool is called for no other reason.
CancelBeforeEnqueue ==
    (mode = "pool" /\ cfg.StopOnError) =>
        /\ \A w \in Workers : SendingError(w) => cancelOnce
        /\ \A k \in DOMAIN outCh :
              outCh[k].Err.kind \in {"user", "deadline"} => cancelOnce
        /\ \A w \in Workers :
              wpc[w] = "recoverStop" =>
                  \E k \in DOMAIN outCh :
                      outCh[k] = PanicResult(jobs[wjob[w]])
        /\ cancelOnce => (ErrorEmitted \/ \E w \in Workers : SendingError(w))

\* C22 witness: with StopOnError the token is tripped by the error of the
\* first job, the feeder's skipped Result of the second job is on the
\* output, and the Result with the error is still to be sent.
CancelBeforeEnqueueWitness ==
    /\ mode = "pool"
    /\ cfg.StopOnError
    /\ cancelOnce
    /\ Len(outCh) = 1
    /\ outCh[1].Err = ErrSkipped
    /\ \E w \in Workers :
          wpc[w] = "send" /\ wres[w].Err = ErrUser /\ wjob[w] = 1

\* The finalizer has made its call of cancelPool.
FinalizerCancelled == finpc \in {"close", "done"}

\* C23 as claimed: cancelPool runs at most once in a pool run.
CancelRunsOnce == cancelRuns <= 1

\* C23 as amended: the calls of cancelPool are the one that safeCancelPool
\* lets through (the first of the StopOnError and recover-handler calls)
\* and the finalizer's own, which does not pass through cancelOnce: two at
\* most; cancelOnce, once used, stays used and stops every later
\* safeCancelPool; and a call of cancelPool on a poolCtx that is done
\* leaves it done.
CancelGuard ==
    /\ [](mode = "pool" =>
            cancelRuns = (IF cancelOnce THEN 1 ELSE 0)
                         + (IF FinalizerCancelled THEN 1 ELSE 0))
    /\ [][cancelOnce =>
            /\ cancelOnce'
            /\ cancelRuns' # cancelRuns =>
                  (finpc = "cancel" /\ finpc' = "close")]_vars
    /\ [][PoolDone => PoolDone']_vars

\* C23 witness: cancelPool was called through safeCancelPool after an error
\* and a second time by the finalizer.
CancelGuardWitness ==
    /\ mode = "pool"
    /\ cancelOnce
    /\ FinalizerCancelled
    /\ cancelRuns = 2
    /\ outCloses = 1

\* The steps of the finalizer goroutine, in the order of its statements.
FinalizerSteps ==
    {<<"waitFeeder", "waitWorkers">>, <<"waitWorkers", "cancel">>,
     <<"cancel", "close">>, <<"close", "done">>}

\* C24: in a pool run outCh is closed by the finalizer alone, as the last of
\* its steps, which come in the order feederWG.Wait, workerWG.Wait,
\* cancelPool, close: past the first the feeder has exited, past the second
\* every worker has exited, past the third cancelPool was called; so a
\* closed outCh has poolCtx done, the feeder and all workers exited, and
\* nothing sent afterwards.
FinalizerOrder ==
    /\ [](mode = "pool" =>
            /\ finpc \in {"waitWorkers", "cancel", "close", "done"} =>
                  fpc = "done"
            /\ finpc \in {"cancel", "close", "done"} =>
                  \A w \in Workers : wpc[w] = "done"
            /\ finpc \in {"close", "done"} => (cancelRuns >= 1 /\ PoolDone)
            /\ outCloses = (IF finpc = "done" THEN 1 ELSE 0)
            /\ outCloses = 1 => (PoolDone /\ SendersEnded))
    /\ [][mode = "pool" =>
            /\ finpc' # finpc => <<finpc, finpc'>> \in FinalizerSteps
            /\ outCloses' # outCloses =>
                  (finpc = "close" /\ finpc' = "done" /\ outCh' = outCh)
            /\ outCloses = 1 => outCh' = outCh]_vars

\* C24 witness: a closed outCh of a pool run that nothing but the finalizer
\* cancelled, all jobs delivered.
FinalizerOrderWitness ==
    /\ mode = "pool"
    /\ outCloses = 1
    /\ finpc = "done"
    /\ ~cancelOnce /\ ~callerDone /\ ~poolTimedOut
    /\ cancelRuns = 1
    /\ Len(outCh) = Len(jobs)
    /\ Len(jobs) = MaxJobs

\* Worker w has a job in hand: received from jobCh, its iteration not over.
Holding(w) == wpc[w] \notin {"recv", "done"}

\* The step is a receive from jobCh by worker w.
Receives(w) == wpc[w] = "recv" /\ wpc'[w] = "precheck"

\* C25: the feeder goes through the jobs in input order, one position at a
\* time; it leaves a position either by handing the job to one worker that was
\* receiving, or by finishing its own skipped Result, never both; the jobs
\* in the workers' hands are pairwise different, all from positions the
\* feeder has left; workerFunc is entered once at most per job, and not for
\* a job the feeder has not left; a worker receives a job from nothing but
\* the feeder's offer; jobCh is closed once, after the last position.
SingleDispatch ==
    /\ [](mode = "pool" =>
            /\ fidx \in 1..(Len(jobs) + 1)
            /\ \A w \in Workers : Holding(w) => wjob[w] \in 1..(fidx - 1)
            /\ \A w1, w2 \in Workers :
                  (Holding(w1) /\ Holding(w2) /\ w1 # w2) => wjob[w1] # wjob[w2]
            /\ fpc \in {"sink", "send"} => fidx <= Len(jobs)
            /\ \A i \in DOMAIN jobs :
                  /\ invocations[i] <= 1
                  /\ i >= fidx => invocations[i] = 0
            /\ fpc = "done" => fidx = Len(jobs) + 1)
    /\ [][mode = "pool" =>
            /\ fidx' # fidx =>
                  /\ fidx' = fidx + 1
                  /\ \/ /\ fpc = "offer" /\ fpc' = "offer"
                        /\ \E w \in Workers :
                              /\ Receives(w)
                              /\ wjob'[w] = fidx
                              /\ \A v \in Workers \ {w} :
                                    wpc'[v] = wpc[v] /\ wjob'[v] = wjob[v]
                     \/ /\ fpc \in {"sink", "send"} /\ fpc' = "offer"
                        /\ wpc' = wpc /\ wjob' = wjob
            /\ \A w \in Workers :
                  Receives(w) => (fpc = "offer" /\ wjob'[w] = fidx /\ fidx' = fidx + 1)
            /\ \A w \in Workers :
                  (Holding(w) /\ Holding(w)') => wjob'[w] = wjob[w]
            /\ (fpc = "offer" /\ fpc' = "sink") =>
                  (fidx' = fidx /\ wpc' = wpc /\ wjob' = wjob)
            /\ fpc = "done" => fpc' = "done"
            /\ (fpc # "done" /\ fpc' = "done") =>
                  (fpc = "offer" /\ fidx = Len(jobs) + 1)]_vars

\* C25 witness: the first job went to a worker and was invoked, the second
\* is being skipped by the feeder, which no worker holds.
SingleDispatchWitness ==
    /\ mode = "pool"
    /\ Len(jobs) = MaxJobs
    /\ invocations[1] = 1
    /\ fpc = "send" /\ fidx = 2
    /\ \E w \in Workers : Holding(w) /\ wjob[w] = 1

\* C26 as claimed: once poolCtx is done no worker receives a job from the
\* feeder.
NoHandOverAfterCancel ==
    [][(mode = "pool" /\ PoolDone) => \A w \in Workers : ~Receives(w)]_vars

\* C26 as amended: with poolCtx done, the feeder's select on a job either
\* takes <-poolCtx.Done(), and then the feeder itself passes the skipped
\* Result of that job through sendResult and goes on to the next job, or
\* still meets a receiving worker, whose check of poolCtx then answers with
\* the skipped Result; in neither case is workerFunc entered for the job.
\* The feeder calls sendResult only with poolCtx done, for a job no worker
\* has.
FeederSkipsOrHandsOver ==
    /\ [][(mode = "pool" /\ PoolDone) =>
            /\ (fpc = "offer" /\ fidx <= Len(jobs)
                    /\ (fpc' # fpc \/ fidx' # fidx)) =>
                  \/ fpc' = "sink" /\ fidx' = fidx /\ wjob' = wjob
                  \/ /\ fpc' = "offer" /\ fidx' = fidx + 1
                     /\ \E w \in Workers : Receives(w) /\ wjob'[w] = fidx
            /\ (fpc = "sink" /\ fpc' # fpc) =>
                  /\ fidx' = (IF AlreadySent(jobs[fidx].ID) THEN fidx + 1 ELSE fidx)
                  /\ fpc' = (IF AlreadySent(jobs[fidx].ID) THEN "offer" ELSE "send")
            /\ (fpc = "send" /\ fpc' # fpc) =>
                  /\ outCh' = Append(outCh, Result(jobs[fidx].ID, 0, ErrSkipped))
                  /\ fpc' = "offer" /\ fidx' = fidx + 1
            /\ \A w \in Workers :
                  (wpc[w] = "precheck" /\ wpc'[w] # "precheck") =>
                      /\ wpc'[w] = "sink"
                      /\ wres'[w] = Result(jobs[wjob[w]].ID, 0, ErrSkipped)
                      /\ invocations'[wjob[w]] = 0]_vars
    /\ []((mode = "pool" /\ fpc \in {"sink", "send"}) =>
            /\ PoolDone
            /\ invocations[fidx] = 0
            /\ \A w \in Workers : Holding(w) => wjob[w] # fidx)

\* C26 witness: the single worker has failed on the first job under
\* StopOnError, cancelled the pool and delivered the error, and after that
\* has received the second job from the feeder, workerFunc not entered.
FeederSkipsOrHandsOverWitness ==
    /\ mode = "pool"
    /\ cfg.NumWorkers = 1
    /\ Len(jobs) = MaxJobs
    /\ cancelOnce /\ ~callerDone /\ ~poolTimedOut
    /\ Len(outCh) = 1 /\ outCh[1].Err = ErrUser
    /\ wpc[1] = "precheck" /\ wjob[1] = 2
    /\ invocations[2] = 0

\* Worker w is in the select on globalSemaphore.
Acquiring(w) == ~semNil /\ wpc[w] = "acquire"

\* C27 as claimed: a worker that is in the semaphore select when poolCtx is
\* done leaves it with the skipped Result only.
AcquireSkipsAfterCancel ==
    [][(mode = "pool" /\ PoolDone) =>
          \A w \in Workers :
              (Acquiring(w) /\ wpc'[w] # "acquire") => wpc'[w] = "sink"]_vars

\* C27 as amended: a worker in the semaphore select with poolCtx done
\* leaves it in one of two ways: with the skipped Result of its job, no
\* permit taken and workerFunc not entered, which is always open to it, so
\* that it does not wait on the holders of the permits; or, only when a
\* permit is free, with that permit and on to workerFunc.
AcquireObservesCancel ==
    /\ [][(mode = "pool" /\ PoolDone) =>
            \A w \in Workers :
                (Acquiring(w) /\ wpc'[w] # "acquire") =>
                    \/ /\ wpc'[w] = "sink"
                       /\ wres'[w] = Result(jobs[wjob[w]].ID, 0, ErrSkipped)
                       /\ semCount' = semCount
                       /\ invocations' = invocations
                       /\ wjob' = wjob
                    \/ /\ wpc'[w] = "invoke"
                       /\ semCount < SemCap
                       /\ semCount' = semCount + 1
                       /\ wjob' = wjob]_vars
    /\ []((mode = "pool" /\ PoolDone) =>
            \A w \in Workers : Acquiring(w) => ENABLED WorkerAcquireSkip(w))
    /\ [](mode = "pool" =>
            \A w \in Workers :
                (wpc[w] \in {"sink", "send"} /\ wres[w].Err = ErrSkipped) =>
                    (~HoldsPermit(w) /\ invocations[wjob[w]] = 0))

\* C27 witness: poolCtx is done, a worker is in the semaphore select for
\* the first job, and every permit is held outside the pool.
AcquireObservesCancelWitness ==
    /\ mode = "pool"
    /\ PoolDone
    /\ extHeld = SemCap
    /\ \E w \in Workers : Acquiring(w) /\ wjob[w] = 1 /\ invocations[1] = 0

\* The workers that hold a permit of globalSemaphore.
PermitHolders == {w \in Workers : HoldsPermit(w)}

\* C28: with a semaphore given, the permits taken are those of the other
\* users of the semaphore plus one for each worker between its acquisition
\* and the end of its iteration, never more than the capacity; every worker
\* inside workerFunc is one of these, a worker waiting for a job or a
\* permit, or sending a skipped Result, is not; so the calls of workerFunc
\* in progress, together with the permits held outside this pool (by a
\* second pool on the same semaphore, one for each of its calls), stay
\* within the capacity.
LimiterCeiling ==
    (mode = "pool" /\ ~semNil) =>
        /\ semCount \in 0..SemCap
        /\ extHeld \in 0..semCount
        /\ semCount = extHeld + Cardinality(PermitHolders)
        /\ Invoking \subseteq PermitHolders
        /\ \A w \in Workers :
              \/ wpc[w] \in {"recv", "precheck", "acquire", "done"}
              \/ wpc[w] \in {"sink", "send"} /\ wres[w].Err = ErrSkipped
              => w \notin PermitHolders
        /\ Cardinality(Invoking) + extHeld <= SemCap

\* C28 witness: two workers and a full semaphore: one worker is inside
\* workerFunc with a permit, the other has a job and waits for a permit.
LimiterCeilingWitness ==
    /\ mode = "pool"
    /\ ~semNil
    /\ semCount = SemCap
    /\ Cardinality(Invoking) + extHeld = SemCap
    /\ Invoking # {}
    /\ \E w \in Workers : Acquiring(w)

\* The Result that sendResult accepted for job i is a skipped one: still
\* in the hands of the sender, or on the output.
AcceptedSkipped(i) ==
    \/ fpc = "send" /\ fidx = i
    \/ \E w \in Workers :
          wpc[w] = "send" /\ wjob[w] = i /\ wres[w].Err = ErrSkipped
    \/ \E k \in DOMAIN outCh :
          outCh[k].ID = jobs[i].ID /\ outCh[k].Err = ErrSkipped

\* The state of job i: SKIPPED or DONE once sendResult has stored its id,
\* by the Result stored; before that RUNNING when workerFunc was entered
\* for it, DISPATCHED when a worker has it, PENDING otherwise.
JobState(i) ==
    IF AlreadySent(jobs[i].ID)
    THEN (IF AcceptedSkipped(i) THEN "SKIPPED" ELSE "DONE")
    ELSE IF invocations[i] > 0
    THEN "RUNNING"
    ELSE IF \E w \in Workers : Holding(w) /\ wjob[w] = i
    THEN "DISPATCHED"
    ELSE "PENDING"

\* What the state of a job is read from.
jobVars == <<sentResults, fpc, fidx, wpc, wjob, wres, outCh, invocations>>

JobTransitions ==
    {<<"PENDING", "DISPATCHED">>, <<"DISPATCHED", "RUNNING">>,
     <<"RUNNING", "DONE">>, <<"PENDING", "SKIPPED">>,
     <<"DISPATCHED", "SKIPPED">>}

\* The Results of job i that passed LoadOrStore: waiting at outCh <- result
\* or on the output.
ResultsAccepted(i) ==
    Cardinality({w \in Workers : wpc[w] = "send" /\ wjob[w] = i})
    + (IF fpc = "send" /\ fidx = i THEN 1 ELSE 0)
    + Cardinality({k \in DOMAIN outCh : outCh[k].ID = jobs[i].ID})

\* C29: in a pool run a job changes state only along PENDING -> DISPATCHED
\* -> RUNNING -> DONE, PENDING -> SKIPPED and DISPATCHED -> SKIPPED; nothing
\* leaves DONE or SKIPPED and RUNNING does not go to SKIPPED; the step into
\* DONE or SKIPPED is the LoadOrStore that stores the id of the job and of
\* no other; a job in DONE or SKIPPED has one accepted Result, any other
\* job none; a RUNNING job is in the hands of a worker.
JobStateMachine ==
    /\ [][(mode = "pool" /\ jobVars' # jobVars) =>
            \A i \in DOMAIN jobs :
                \A before \in {JobState(i)} : \A after \in {JobState(i)'} :
                    after # before =>
                        /\ <<before, after>> \in JobTransitions
                        /\ after \in {"DONE", "SKIPPED"} =>
                              /\ sentResults' = sentResults \cup {jobs[i].ID}
                              /\ sentResults' # sentResults
                              /\ outCh' = outCh]_vars
    /\ [](mode = "pool" =>
            \A i \in DOMAIN jobs : \A st \in {JobState(i)} :
                /\ ResultsAccepted(i) =
                      (IF st \in {"DONE", "SKIPPED"} THEN 1 ELSE 0)
                /\ st = "RUNNING" =>
                      \E w \in Workers : Holding(w) /\ wjob[w] = i
                /\ st = "SKIPPED" => invocations[i] = 0
                /\ st = "DONE" => invocations[i] = 1)

\* C29 witness: the run has ended with the first job DONE, by way of
\* RUNNING, and the second SKIPPED.
JobStateMachineWitness ==
    /\ mode = "pool"
    /\ Len(jobs) = MaxJobs
    /\ outCloses = 1
    /\ JobState(1) = "DONE"
    /\ JobState(2) = "SKIPPED"

\* The Results with the given id that passed LoadOrStore: waiting at
\* outCh <- result or sent.
Forwarded(id) ==
    Cardinality({p \in Workers : wpc[p] = "send" /\ wres[p].ID = id})
    + Delivered(id)

\* C30: whatever calls of sendResult are made, in whatever interleaving:
\* for each id one Result is forwarded as soon as the id is stored and none
\* before; the call forwarded is the one whose LoadOrStore stored the id,
\* and it is sent as passed; a call that finds the id stored returns at
\* once, with sentResults and outCh as they were, and is never kept
\* waiting; the send of a forwarded Result always finds room; sentResults
\* only grows.
SinkDedup ==
    /\ [](mode = "sink" =>
            /\ \A id \in JobIDs :
                  Forwarded(id) = (IF AlreadySent(id) THEN 1 ELSE 0)
            /\ sentResults \subseteq JobIDs
            /\ \A p \in Workers :
                  /\ wpc[p] = "sink" => ENABLED WorkerSink(p)
                  /\ wpc[p] = "send" => CanSend)
    /\ [][mode = "sink" =>
            /\ sentResults \subseteq sentResults'
            /\ \A p \in Workers :
                  (wpc[p] = "sink" /\ wpc'[p] # "sink") =>
                      IF AlreadySent(wres[p].ID)
                      THEN /\ wpc'[p] = "recv"
                           /\ sentResults' = sentResults
                           /\ outCh' = outCh
                      ELSE /\ wpc'[p] = "send"
                           /\ wres'[p] = wres[p]
                           /\ sentResults' = sentResults \cup {wres[p].ID}
                           /\ outCh' = outCh
            /\ outCh' # outCh =>
                  \E p \in Workers :
                      /\ wpc[p] = "send" /\ wpc'[p] = "recv"
                      /\ outCh' = Append(outCh, wres[p])]_vars

\* C30 witness: two goroutines have called sendResult with the same id and
\* a third call with it is under way: the first goroutine's Result is on
\* the output, its next call and the second goroutine stand before the
\* LoadOrStore with that id.
SinkDedupWitness ==
    /\ mode = "sink"
    /\ Len(outCh) = 1
    /\ outCh[1].Value = 1
    /\ \A p \in Workers : wpc[p] = "sink" /\ wres[p].ID = outCh[1].ID

\* The goroutines that stand at a send on outCh.
SendersWaiting ==
    Cardinality({w \in Workers : wpc[w] = "send"})
    + (IF fpc = "send" THEN 1 ELSE 0)
    + (IF epc = "emit" /\ eidx <= Len(jobs) THEN 1 ELSE 0)

\* C31: outCh is made with room for len(jobs) Results; the Results sent so
\* far (read by the consumer or still in the buffer) together with the
\* sends that are due never exceed len(jobs), so every goroutine that
\* stands at a send on outCh finds room, with no Result read at all.
NonBlockingOutput ==
    mode # "entry" =>
        /\ outCap = Len(jobs)
        /\ consumed \in 0..Len(outCh)
        /\ Buffered + consumed = Len(outCh)
        /\ Len(outCh) + SendersWaiting <= Len(jobs)
        /\ SendersWaiting > 0 => (Len(outCh) < outCap /\ CanSend)

\* C31 witness: a pool run has ended with the whole batch in the buffer of
\* outCh, the consumer not having read one Result.
NonBlockingOutputWitness ==
    /\ mode = "pool"
    /\ Len(jobs) = MaxJobs
    /\ consumed = 0
    /\ Buffered = outCap
    /\ outCloses = 1
    /\ \A k \in DOMAIN outCh : outCh[k].Err = NoErr

\* C32: a cancelled ctx of the caller makes poolCtx done; a poolCtx that is
\* done makes the taskCtx of every call of workerFunc in progress done;
\* poolCtx, once done, stays done; nothing flows upward: no step of the
\* pool (cancelPool, the GlobalTimeout timer, a WorkerTimeout timer)
\* changes the caller's ctx, and the expiry of a taskCtx leaves poolCtx
\* and the taskCtx of the other workers as they are.
CancellationDownward ==
    /\ [](mode = "pool" =>
            /\ callerDone => PoolDone
            /\ \A w \in Workers :
                  (PoolDone /\ wpc[w] = "running") =>
                      (wtask[w] # "none" /\ TaskDone(w)))
    /\ [][mode = "pool" =>
            /\ PoolDone => PoolDone'
            /\ callerDone => callerDone'
            /\ callerDone' # callerDone =>
                  (cancelRuns' = cancelRuns /\ cancelOnce' = cancelOnce
                   /\ poolTimedOut' = poolTimedOut /\ wpc' = wpc
                   /\ ~PoolDone /\ PoolDone')
            /\ \A w \in Workers :
                  (wtask[w] = "live" /\ wtask'[w] = "expired") =>
                      /\ PoolDone' = PoolDone
                      /\ callerDone' = callerDone
                      /\ \A v \in Workers \ {w} : wtask'[v] = wtask[v]]_vars

\* C32 witness: the caller has cancelled ctx while a call of workerFunc is
\* in progress whose WorkerTimeout has not passed: its taskCtx is done.
CancellationDownwardWitness ==
    /\ mode = "pool"
    /\ callerDone /\ ~cancelOnce /\ ~poolTimedOut
    /\ \E w \in Workers :
          wpc[w] = "running" /\ wtask[w] = "live" /\ TaskDone(w)

\* Worker w has a taskCtx whose cancel() has not been called.
TokenOutstanding(w) == wtask[w] # "none"

\* C33: a taskCtx is outstanding only in a worker that is inside
\* workerFunc or between its return and the end of sendResult; after a
\* panic it is released before the recovered Result is sent; a worker that
\* waits for a job, looks at one, waits for a permit, gives one back or
\* has exited has none; no taskCtx is outstanding once outCh is closed.
TaskTokenReleased ==
    mode = "pool" =>
        /\ \A w \in Workers :
              TokenOutstanding(w) =>
                  /\ wpc[w] \in {"running", "stop", "sink", "send"}
                  /\ invocations[wjob[w]] = 1
                  /\ wpc[w] \in {"sink", "send"} =>
                        wres[w].Err.kind \notin {"skipped", "panic"}
        /\ \A w \in Workers :
              wpc[w] \in {"recv", "precheck", "acquire", "invoke",
                          "recoverStop", "release", "done"}
                  => ~TokenOutstanding(w)
        /\ outCloses > 0 => \A w \in Workers : ~TokenOutstanding(w)

\* C33 witness: workerFunc has panicked in a worker, which stands before
\* sendResult with the recovered Result, its taskCtx released.
TaskTokenReleasedWitness ==
    /\ mode = "pool"
    /\ \E w \in Workers :
          /\ wpc[w] = "sink"
          /\ wres[w].Err.kind = "panic"
          /\ invocations[wjob[w]] = 1
          /\ ~TokenOutstanding(w)

\* Job j of the batch has the ID of an earlier job.
Collides(js, j) == \E i \in 1..(j - 1) : js[i].ID = js[j].ID

\* The first job, in input order, that has the ID of an earlier job.
FirstCollision(js) ==
    CHOOSE j \in DOMAIN js :
        Collides(js, j) /\ \A k \in 1..(j - 1) : ~Collides(js, k)

\* C34: on the duplicate path the id in the message is the ID of the first
\* job, in input order, that has the ID of an earlier job, as one pass from
\* the left finds it (for the ids 1, 2, 2, 1 the third job, with id 2), and
\* every Result sent carries the message with that id, each under the ID of
\* its own job.
DuplicateMessage ==
    mode = "dup" =>
        /\ DuplicateScan(<<Job(1, 1), Job(2, 2), Job(3, 2), Job(4, 1)>>, 1, {}) = 3
        /\ HasDuplicate(jobs)
        /\ DuplicateScan(jobs, 1, {}) = FirstCollision(jobs)
        /\ dupID = jobs[FirstCollision(jobs)].ID
        /\ \A k \in DOMAIN outCh :
              outCh[k] = Result(jobs[k].ID, 0, ErrDuplicate(dupID))
        /\ outCloses = 1 => Len(outCh) = Len(jobs)

\* C34 witness: a batch of four jobs whose ids are those of 1, 2, 2, 1 has
\* been rejected, all four Results naming the id of the second and third job.
DuplicateMessageWitness ==
    /\ mode = "dup"
    /\ Len(jobs) = 4
    /\ jobs[1].ID = jobs[4].ID /\ jobs[2].ID = jobs[3].ID
    /\ jobs[1].ID # jobs[2].ID
    /\ outCloses = 1
    /\ Len(outCh) = 4
    /\ \A k \in DOMAIN outCh : outCh[k].Err = ErrDuplicate(jobs[2].ID)

\* C35: in a pool run every call of sendResult finds its id not stored, so
\* the branch that drops a Result is never taken and sendResult does what
\* a plain send does; the calls under way are for different jobs, each by
\* the feeder or by the one worker that has the job; an id is stored
\* exactly when its one Result has been accepted.
DedupNeverFires ==
    mode = "pool" =>
        /\ \A w \in Workers :
              wpc[w] = "sink" =>
                  /\ ~AlreadySent(wres[w].ID)
                  /\ fpc = "sink" => jobs[fidx].ID # wres[w].ID
                  /\ \A v \in Workers \ {w} :
                        wpc[v] = "sink" => wres[v].ID # wres[w].ID
        /\ fpc = "sink" => ~AlreadySent(jobs[fidx].ID)
        /\ \A w \in Workers :
              wpc[w] \in {"sink", "send"} => wres[w].ID = jobs[wjob[w]].ID
        /\ \A w \in Workers : wpc[w] = "send" => AlreadySent(wres[w].ID)
        /\ fpc = "send" => AlreadySent(jobs[fidx].ID)
        /\ \A k \in DOMAIN outCh : AlreadySent(outCh[k].ID)
        /\ Cardinality(sentResults) =
              Len(outCh) + Cardinality({w \in Workers : wpc[w] = "send"})
              + (IF fpc = "send" THEN 1 ELSE 0)
        /\ outCloses > 0 => sentResults = JobIDs

\* C35 witness: a run has ended in which sendResult was called on the
\* panic path for one job and on a skip path for another, both stored and
\* both on the output.
DedupNeverFiresWitness ==
    /\ mode = "pool"
    /\ outCloses = 1
    /\ Len(jobs) = MaxJobs
    /\ sentResults = JobIDs
    /\ Len(outCh) = Len(jobs)
    /\ outCh[1].Err.kind = "panic"
    /\ outCh[2].Err = ErrSkipped

\* The path a call takes, by the order of the pre-flight checks.
PathOf(js, ctxDone) ==
    IF Len(js) = 0 THEN "empty"
    ELSE IF HasDuplicate(js) THEN "dup"
    ELSE IF ctxDone THEN "cancelled"
    ELSE "pool"

\* C36: the call leaves the pre-flight checks by the first that applies,
\* in the order empty batch, duplicate ids, cancelled ctx, so that a batch
\* with duplicate ids under a cancelled ctx gets the duplicate error on
\* every job; the path taken is kept; on both rejection paths cfg is left
\* as the caller passed it, no permit of the semaphore is taken, nothing
\* of the pool is started, and the Results are those the batch alone
\* determines.
PreflightPrecedence ==
    /\ [][mode = "entry" => mode' \in {"entry", PathOf(jobs, callerDone)}]_vars
    /\ [][mode # "entry" => mode' = mode]_vars
    /\ [](mode \in {"dup", "cancelled"} =>
            /\ cfg = callerCfg
            /\ semCount = extHeld
            /\ NothingStarted
            /\ ~cancelOnce /\ ~poolTimedOut /\ sentResults = {}
            /\ \A k \in DOMAIN outCh :
                  outCh[k] = Result(jobs[k].ID, 0,
                                    IF mode = "dup"
                                    THEN ErrDuplicate(jobs[FirstCollision(jobs)].ID)
                                    ELSE ErrSkipped))

\* C36 witness: a batch with duplicate ids, ctx cancelled, every permit of
\* the semaphore held elsewhere: all Results carry the duplicate error and
\* the output is closed.
PreflightPrecedenceWitness ==
    /\ mode = "dup"
    /\ callerDone
    /\ ~semNil /\ extHeld = SemCap
    /\ Len(jobs) = 2
    /\ outCloses = 1
    /\ consumed = 0
    /\ \A k \in DOMAIN outCh : outCh[k].Err.kind = "duplicate"

\* C37: whatever configuration the caller passes, after the defaults are
\* set there is at least one worker, WorkerTimeout is positive and not
\* longer than GlobalTimeout.
TimeoutsOrdered ==
    mode = "defaults" =>
        /\ cfg.NumWorkers >= 1
        /\ 0 < cfg.WorkerTimeout
        /\ cfg.WorkerTimeout <= cfg.GlobalTimeout

\* C37 witness: the caller passed no worker count, the longest
\* WorkerTimeout and a GlobalTimeout of one second: GlobalTimeout was raised
\* above WorkerTimeout.
TimeoutsOrderedWitness ==
    /\ mode = "defaults"
    /\ callerCfg.NumWorkers < 0
    /\ callerCfg.WorkerTimeout = MaxSeconds
    /\ callerCfg.GlobalTimeout = 1
    /\ cfg.WorkerTimeout = MaxSeconds
    /\ cfg.GlobalTimeout > cfg.WorkerTimeout

\* Worker w is in the recover handler of an iteration whose workerFunc
\* panicked.
InRecover(w) ==
    \/ wpc[w] \in {"sink", "send"} /\ Recovering(w)
    \/ wpc[w] = "recoverStop"

\* C38: a worker ends only at the receive from a closed jobCh, so until the
\* feeder has closed jobCh all cfg.NumWorkers workers are alive, whatever
\* panicked; a worker in the recover handler does not end there and gets
\* back to the receive; and a pool of one worker without StopOnError closes
\* the output with one Result per job, whatever workerFunc does, panics on
\* every job included.
WorkersSurvivePanics ==
    /\ [](mode = "pool" =>
            /\ Cardinality(Workers) = cfg.NumWorkers
            /\ fpc # "done" => \A w \in Workers : wpc[w] # "done"
            /\ outCloses > 0 => Len(outCh) = Len(jobs))
    /\ [][mode = "pool" =>
            \A w \in Workers :
                /\ (wpc[w] # "done" /\ wpc'[w] = "done") =>
                      (wpc[w] = "recv" /\ fpc = "done")
                /\ InRecover(w) => wpc'[w] # "done"]_vars
    /\ \A w \in 1..MostWorkers :
          (w \in Workers /\ InRecover(w)) ~> (w \in Workers /\ wpc[w] = "recv")
    /\ (mode = "pool" /\ cfg.NumWorkers = 1 /\ ~cfg.StopOnError)
          ~> (outCloses = 1 /\ Len(outCh) = Len(jobs))

\* C38 witness: one worker, no StopOnError, no cancellation: workerFunc
\* has panicked on every job, the output holds the panic Result of each job
\* in input order and is closed.
WorkersSurvivePanicsWitness ==
    /\ mode = "pool"
    /\ cfg.NumWorkers = 1 /\ ~cfg.StopOnError
    /\ cancelRuns = 1 /\ ~cancelOnce /\ ~callerDone /\ ~poolTimedOut
    /\ Len(jobs) = MaxJobs
    /\ outCloses = 1
    /\ \A k \in DOMAIN jobs : outCh[k] = PanicResult(jobs[k])

====
